---- MODULE Spec2Model ----
(***************************************************************************)
(* Model of the hybrid retrieval pipeline of RAG-FastAPI-Service:          *)
(*   app/services/retrieval_service.py  (RetrievalService)                 *)
(*   app/services/bm25_service.py       (BM25Service)                      *)
(*   app/services/vector_store.py       (VectorStore.search, result shape) *)
(*   app/utils/text_splitter.py         (RecursiveCharacterTextSplitter)   *)
(*                                                                         *)
(* Floats are exact rationals <<n, d>> in lowest terms with d > 0.         *)
(* A text is a sequence of one-character strings.                          *)
(***************************************************************************)
EXTENDS Integers, Sequences, FiniteSets, TLC

(***************************************************************************)
(* Generic helpers                                                         *)
(***************************************************************************)
Range(s) == {s[i] : i \in DOMAIN s}

Abs(n) == IF n < 0 THEN -n ELSE n

RECURSIVE GCD(_, _)
GCD(a, b) == IF b = 0 THEN a ELSE GCD(b, a % b)

\* the rational n/d in lowest terms (d # 0)
R(n, d) ==
    LET s == IF d < 0 THEN -1 ELSE 1
        g == GCD(Abs(n), Abs(d))
    IN  <<(s * n) \div g, (s * d) \div g>>

RAdd(a, b) == R(a[1] * b[2] + b[1] * a[2], a[2] * b[2])
RSub(a, b) == R(a[1] * b[2] - b[1] * a[2], a[2] * b[2])
RMul(a, b) == R(a[1] * b[1], a[2] * b[2])
RDiv(a, b) == R(a[1] * b[2], a[2] * b[1])
RLess(a, b) == a[1] * b[2] < b[1] * a[2]
RLeq(a, b) == a[1] * b[2] <= b[1] * a[2]
RZero == <<0, 1>>
ROne == <<1, 1>>

\* Python min() / max() over a non-empty list of floats
RECURSIVE MinOf(_)
MinOf(s) ==
    IF Len(s) = 1 THEN s[1]
    ELSE LET m == MinOf(Tail(s)) IN IF RLess(m, s[1]) THEN m ELSE s[1]

RECURSIVE MaxOf(_)
MaxOf(s) ==
    IF Len(s) = 1 THEN s[1]
    ELSE LET m == MaxOf(Tail(s)) IN IF RLess(s[1], m) THEN m ELSE s[1]

RECURSIVE SumSeq(_)
SumSeq(s) == IF s = <<>> THEN 0 ELSE s[1] + SumSeq(Tail(s))

\* list.sort(key=lambda x: x["score"], reverse=True) on a list of records:
\* Python's sort is stable, and reverse=True keeps the original order of
\* records with equal keys.
RECURSIVE InsertDesc(_, _)
InsertDesc(sorted, x) ==
    IF sorted = <<>> THEN <<x>>
    ELSE IF RLess(sorted[1].score, x.score)
         THEN <<x>> \o sorted
         ELSE <<sorted[1]>> \o InsertDesc(Tail(sorted), x)

RECURSIVE SortDesc(_)
SortDesc(s) ==
    IF s = <<>> THEN <<>>
    ELSE InsertDesc(SortDesc(SubSeq(s, 1, Len(s) - 1)), s[Len(s)])

\* s[:n] for n >= 0
Prefix(s, n) == SubSeq(s, 1, IF n < Len(s) THEN n ELSE Len(s))

\* first position of x in s (list.index)
IndexOf(s, x) == CHOOSE i \in DOMAIN s : s[i] = x /\ \A j \in 1..(i - 1) : s[j] # x

\* a Python dict: a function on its key set
EmptyDict == [k \in {} |-> 0]
DictSet(d, k, v) == [x \in (DOMAIN d) \cup {k} |-> IF x = k THEN v ELSE d[x]]

(***************************************************************************)
(* Score normalisers (two copies in the source)                            *)
(***************************************************************************)
\* BM25Service.normalize_scores
normalize_scores(scores) ==
    IF scores = <<>> THEN <<>>
    ELSE LET min_score == MinOf(scores)
             max_score == MaxOf(scores)
         IN  IF max_score = min_score
             THEN [i \in DOMAIN scores |-> ROne]
             ELSE [i \in DOMAIN scores |->
                      RDiv(RSub(scores[i], min_score), RSub(max_score, min_score))]

\* _normalize_scores dividing by the maximum instead of the range
_normalize_scores_by_max(scores) ==
    IF Len(scores) = 0 THEN <<>>
    ELSE LET min_score == MinOf(scores)
             max_score == MaxOf(scores)
         IN  IF max_score = min_score
             THEN [i \in DOMAIN scores |-> ROne]
             ELSE [i \in DOMAIN scores |->
                      IF max_score = RZero THEN RZero
                      ELSE RDiv(RSub(scores[i], min_score), max_score)]

\* RetrievalService._normalize_scores
_normalize_scores(scores) ==
    IF Len(scores) = 0 THEN <<>>
    ELSE LET min_score == MinOf(scores)
             max_score == MaxOf(scores)
         IN  IF max_score = min_score
             THEN [i \in DOMAIN scores |-> ROne]
             ELSE [i \in DOMAIN scores |->
                      RDiv(RSub(scores[i], min_score), RSub(max_score, min_score))]

(***************************************************************************)
(* Insertion-ordered Python dicts (bm25_map, combined_map): a sequence of  *)
(* <<key, value>>; assigning an existing key replaces the value in place.  *)
(***************************************************************************)
OD_keys(d) == [i \in DOMAIN d |-> d[i][1]]
OD_values(d) == [i \in DOMAIN d |-> d[i][2]]
OD_has(d, k) == \E i \in DOMAIN d : d[i][1] = k
OD_get(d, k, default) ==
    IF OD_has(d, k) THEN d[IndexOf(OD_keys(d), k)][2] ELSE default
OD_set(d, k, v) ==
    IF OD_has(d, k)
    THEN [i \in DOMAIN d |-> IF d[i][1] = k THEN <<k, v>> ELSE d[i]]
    ELSE Append(d, <<k, v>>)

(***************************************************************************)
(* Configuration (app/config.py)                                           *)
(***************************************************************************)
\* settings.hybrid_search_alpha = 0.7
AlphaNum == 7
AlphaDen == 10
alpha == R(AlphaNum, AlphaDen)

(***************************************************************************)
(* Bounds and input domains                                                *)
(***************************************************************************)
MaxTopK == 2

Collections == {"kbA", "kbB"}

\* The points held by the vector store.  chunk_id "" is a point whose
\* payload has no chunk_id (VectorStore.search defaults it to "").
Points ==
    [kbA |-> { [id |-> 1, chunk_id |-> "c1", content |-> <<"l">>],
               [id |-> 2, chunk_id |-> "c2", content |-> <<"m", " ", "x">>],
               [id |-> 3, chunk_id |-> "",   content |-> <<"m">>],
               [id |-> 4, chunk_id |-> "",   content |-> <<"x">>] },
     kbB |-> { [id |-> 5, chunk_id |-> "d1", content |-> <<>>] }]

Queries == { <<"l", " ", "m">>, <<"x">> }

\* raw similarity scores the store may report, in tenths
VScores == {3, 8}

\* score_threshold of a request: None or a float in [0, 1] (tenths)
None == <<>>
Thresholds == {None, R(5, 10)}

(***************************************************************************)
(* BM25Service (app/services/bm25_service.py)                              *)
(***************************************************************************)
\* BM25Service._tokenize: jieba.lcut cuts a text into maximal runs of word
\* characters and one token per blank.
RECURSIVE _tokenize(_)
_tokenize(text) ==
    IF text = <<>> THEN <<>>
    ELSE LET rest == _tokenize(Tail(text))
         IN  IF text[1] = " " THEN <<<<" ">>>> \o rest
             ELSE IF rest # <<>> /\ rest[1][1] # " " /\ Len(text) > 1 /\ text[2] # " "
                  THEN <<<<text[1]>> \o rest[1]>> \o Tail(rest)
                  ELSE <<<<text[1]>>>> \o rest

\* 100 * ln(k) for the odd k that occur in the idf of a small corpus
Ln100(k) ==
    CASE k = 1 -> 0     [] k = 3 -> 110   [] k = 5 -> 161   [] k = 7 -> 195
      [] k = 9 -> 220   [] k = 11 -> 240  [] k = 13 -> 256  [] k = 15 -> 271

Count(tokens, w) == Cardinality({i \in DOMAIN tokens : tokens[i] = w})

\* rank_bm25.BM25Okapi(tokenized_docs) as used by build_index; scores are
\* fixed-point hundredths.  k1 = 1.5, b = 0.75, epsilon = 0.25.
\*   idf(w) = ln(N - n(w) + 0.5) - ln(n(w) + 0.5), and a negative idf is
\*   replaced by epsilon * average_idf.
Vocabulary(tokenized_docs) == UNION {Range(tokenized_docs[i]) : i \in DOMAIN tokenized_docs}

RawIdf(tokenized_docs, w) ==
    LET N == Len(tokenized_docs)
        n == Cardinality({i \in DOMAIN tokenized_docs : w \in Range(tokenized_docs[i])})
    IN  Ln100(2 * (N - n) + 1) - Ln100(2 * n + 1)

RECURSIVE SumIdf(_, _)
SumIdf(tokenized_docs, words) ==
    IF words = {} THEN 0
    ELSE LET w == CHOOSE x \in words : TRUE
         IN  RawIdf(tokenized_docs, w) + SumIdf(tokenized_docs, words \ {w})

\* the constructor raises ZeroDivisionError when the corpus has no token
BM25OkapiRaises(tokenized_docs) == Vocabulary(tokenized_docs) = {}

BM25Okapi(tokenized_docs) ==
    LET vocab == Vocabulary(tokenized_docs)
        average_idf == SumIdf(tokenized_docs, vocab) \div Cardinality(vocab)
        eps == average_idf \div 4
    IN  [corpus |-> tokenized_docs,
         idf |-> [w \in vocab |->
                    IF RawIdf(tokenized_docs, w) < 0 THEN eps
                    ELSE RawIdf(tokenized_docs, w)]]

\* BM25Okapi.get_scores(tokenized_query): one score per corpus position
get_scores(bm25, tokenized_query) ==
    LET N == Len(bm25.corpus)
        total == SumSeq([i \in 1..N |-> Len(bm25.corpus[i])])
        term(i, q) ==
            LET tf == Count(bm25.corpus[i], q)
                dl == Len(bm25.corpus[i])
                idf == IF q \in DOMAIN bm25.idf THEN bm25.idf[q] ELSE 0
            IN  IF tf = 0 THEN 0
                ELSE (idf * 20 * tf * total) \div (8 * tf * total + 3 * total + 9 * dl * N)
    IN  [i \in 1..N |->
            SumSeq([j \in DOMAIN tokenized_query |-> term(i, tokenized_query[j])])]

(***************************************************************************)
(* BM25Service and VectorStore operations on a dict state st               *)
(***************************************************************************)
NoReq == [query |-> <<>>, collection_name |-> "", top_k |-> 0,
          score_threshold |-> None, use_hybrid |-> FALSE]

\* BM25Service.build_index(collection_name, documents).  tokenizer_fails: the
\* segmenter raises while the documents are tokenized.  The three dicts are
\* assigned only after every step that can raise.
build_index_raises(docs, tokenizer_fails) ==
    /\ docs # <<>>
    /\ \/ tokenizer_fails
       \/ BM25OkapiRaises([i \in DOMAIN docs |-> _tokenize(docs[i].content)])

\* build_index that adds the documents to those the collection already has
build_index_appending(st, collection_name, docs) ==
    LET had == collection_name \in DOMAIN st.documents
        doc_texts == (IF had THEN st.documents[collection_name] ELSE <<>>)
                     \o [i \in DOMAIN docs |-> docs[i].content]
        doc_metadata == (IF had THEN st.metadata[collection_name] ELSE <<>>)
                        \o [i \in DOMAIN docs |->
                               [chunk_id |-> docs[i].chunk_id, content |-> docs[i].content]]
        tokenized_docs == [i \in DOMAIN doc_texts |-> _tokenize(doc_texts[i])]
    IN  IF docs # <<>>
        THEN [indexes |-> DictSet(st.indexes, collection_name, BM25Okapi(tokenized_docs)),
              documents |-> DictSet(st.documents, collection_name, doc_texts),
              metadata |-> DictSet(st.metadata, collection_name, doc_metadata)]
        ELSE st

\* build_index that keeps an index the collection already has
build_index_if_absent(st, collection_name, docs) ==
    LET tokenized_docs == [i \in DOMAIN docs |-> _tokenize(docs[i].content)]
        doc_texts == [i \in DOMAIN docs |-> docs[i].content]
        doc_metadata == [i \in DOMAIN docs |->
                            [chunk_id |-> docs[i].chunk_id, content |-> docs[i].content]]
    IN  IF tokenized_docs # <<>> /\ collection_name \notin DOMAIN st.indexes
        THEN [indexes |-> DictSet(st.indexes, collection_name, BM25Okapi(tokenized_docs)),
              documents |-> DictSet(st.documents, collection_name, doc_texts),
              metadata |-> DictSet(st.metadata, collection_name, doc_metadata)]
        ELSE st

build_index(st, collection_name, docs) ==
    LET tokenized_docs == [i \in DOMAIN docs |-> _tokenize(docs[i].content)]
        doc_texts == [i \in DOMAIN docs |-> docs[i].content]
        doc_metadata == [i \in DOMAIN docs |->
                            [chunk_id |-> docs[i].chunk_id, content |-> docs[i].content]]
    IN  IF tokenized_docs # <<>>
        THEN [indexes |-> DictSet(st.indexes, collection_name, BM25Okapi(tokenized_docs)),
              documents |-> DictSet(st.documents, collection_name, doc_texts),
              metadata |-> DictSet(st.metadata, collection_name, doc_metadata)]
        ELSE st

\* what a build_index that raises leaves behind when the texts are stored
\* before the frequency model is built
build_index_on_raise_partial(st, collection_name, docs) ==
    [indexes |-> st.indexes,
     documents |-> DictSet(st.documents, collection_name,
                           [i \in DOMAIN docs |-> docs[i].content]),
     metadata |-> st.metadata]

\* what a build_index that raises leaves behind: the tokenizer and the
\* BM25Okapi constructor run before the first of the three assignments
build_index_on_raise(st, collection_name, docs) == st

\* PositiveScores without the "score > 0" filter
AllScores(scores, n) == [i \in 1..n |-> [index |-> i - 1, score |-> R(scores[i], 100)]]

\* the positions with score > 0, as {index (0-based), score}, in position order
RECURSIVE PositiveScores(_, _)
PositiveScores(scores, n) ==
    IF n = 0 THEN <<>>
    ELSE PositiveScores(scores, n - 1) \o
         (IF scores[n] > 0 THEN <<[index |-> n - 1, score |-> R(scores[n], 100)]>>
          ELSE <<>>)

\* BM25Service.search(collection_name, query, top_k)
BM25Service_search(st, collection_name, query, top_k) ==
    IF collection_name \notin DOMAIN st.indexes THEN <<>>
    ELSE LET bm25 == st.indexes[collection_name]
             scores == get_scores(bm25, _tokenize(query))
         IN  Prefix(SortDesc(PositiveScores(scores, Len(scores))), top_k)

(***************************************************************************)
(* VectorStore.search (app/services/vector_store.py)                       *)
(***************************************************************************)
\* one hit in the unified format of VectorStore.search; the payload's point
\* id stays in the metadata, the chunk_id is moved out of it
formatted_result(p, v) ==
    [chunk_id |-> p.chunk_id, content |-> p.content, score |-> R(v, 10),
     metadata |-> [_id |-> p.id]]

\* every answer the store can give for a collection: distinct points, best
\* score first
StoreAnswersOfLen(c, n) ==
    { [i \in 1..n |-> formatted_result(f[i][1], f[i][2])] :
        f \in { g \in [1..n -> Points[c] \X VScores] :
                  /\ \A i, j \in 1..n : i # j => g[i][1] # g[j][1]
                  /\ \A i \in 1..(n - 1) : g[i][2] >= g[i + 1][2] } }

AllStoreAnswers ==
    [c \in Collections |-> UNION {StoreAnswersOfLen(c, n) : n \in 0..Cardinality(Points[c])}]

\* an answer to a search for top_k hits: at most top_k hits, none below the
\* threshold when one is given
within_request(a, top_k, score_threshold) ==
    /\ Len(a) <= top_k
    /\ score_threshold # None => \A i \in DOMAIN a : RLeq(score_threshold, a[i].score)

\* the answers to search(collection_name, query_vector, top_k, score_threshold)
VectorStore_search(collection_name, top_k, score_threshold) ==
    { a \in AllStoreAnswers[collection_name] : within_request(a, top_k, score_threshold) }

(***************************************************************************)
(* RetrievalService (app/services/retrieval_service.py)                    *)
(***************************************************************************)
\* bm25_map of _combine_results: chunk_id -> raw BM25 score, in the order
\* of bm25_results, entries with an empty chunk_id skipped
RECURSIVE bm25_map_of(_, _, _)
bm25_map_of(st, collection_name, bm25_res) ==
    IF bm25_res = <<>> \/ collection_name \notin DOMAIN st.metadata THEN <<>>
    ELSE LET n == Len(bm25_res)
             before == bm25_map_of(st, collection_name, SubSeq(bm25_res, 1, n - 1))
             doc_metadata == st.metadata[collection_name]
             doc_idx == bm25_res[n].index
         IN  IF doc_idx < Len(doc_metadata) /\ doc_metadata[doc_idx + 1].chunk_id # ""
             THEN OD_set(before, doc_metadata[doc_idx + 1].chunk_id, bm25_res[n].score)
             ELSE before

\* combined_entry with the two fusion weights exchanged
combined_entry_swapped(vec_res, idx, bm25_map, normalized_vector_scores, normalized_bm25_scores) ==
    LET result == vec_res[idx]
        chunk_id == result.chunk_id
        vector_score == IF idx <= Len(normalized_vector_scores)
                        THEN normalized_vector_scores[idx] ELSE RZero
        raw_bm25 == OD_get(bm25_map, chunk_id, RZero)
        bm25_score ==
            IF RLess(RZero, raw_bm25) /\ normalized_bm25_scores # <<>>
            THEN LET bm25_idx == IndexOf(OD_keys(bm25_map), chunk_id)
                 IN  IF bm25_idx <= Len(normalized_bm25_scores)
                     THEN normalized_bm25_scores[bm25_idx] ELSE RZero
            ELSE raw_bm25
        combined_score == RAdd(RMul(RSub(ROne, alpha), vector_score),
                               RMul(alpha, bm25_score))
    IN  [chunk_id |-> chunk_id, content |-> result.content, metadata |-> result.metadata,
         score |-> combined_score, vector_score |-> vector_score, bm25_score |-> bm25_score]

\* the entry _combine_results stores for vector_results[idx]
combined_entry(vec_res, idx, bm25_map, normalized_vector_scores, normalized_bm25_scores) ==
    LET result == vec_res[idx]
        chunk_id == result.chunk_id
        vector_score == IF idx <= Len(normalized_vector_scores)
                        THEN normalized_vector_scores[idx] ELSE RZero
        raw_bm25 == OD_get(bm25_map, chunk_id, RZero)
        bm25_score ==
            IF RLess(RZero, raw_bm25) /\ normalized_bm25_scores # <<>>
            THEN LET bm25_idx == IndexOf(OD_keys(bm25_map), chunk_id)
                 IN  IF bm25_idx <= Len(normalized_bm25_scores)
                     THEN normalized_bm25_scores[bm25_idx] ELSE RZero
            ELSE raw_bm25
        combined_score == RAdd(RMul(alpha, vector_score),
                               RMul(RSub(ROne, alpha), bm25_score))
    IN  [chunk_id |-> chunk_id, content |-> result.content, metadata |-> result.metadata,
         score |-> combined_score, vector_score |-> vector_score, bm25_score |-> bm25_score]

\* combined_map of _combine_results after the first n vector results
RECURSIVE combined_map_of(_, _, _, _, _)
combined_map_of(vec_res, n, bm25_map, nvs, nbs) ==
    IF n = 0 THEN <<>>
    ELSE OD_set(combined_map_of(vec_res, n - 1, bm25_map, nvs, nbs),
                vec_res[n].chunk_id,
                combined_entry(vec_res, n, bm25_map, nvs, nbs))

\* RetrievalService._combine_results
_combine_results(st, vec_res, bm25_res, collection_name, top_k) ==
    LET bm25_map == bm25_map_of(st, collection_name, bm25_res)
        vector_scores == [i \in DOMAIN vec_res |-> vec_res[i].score]
        bm25_scores == OD_values(bm25_map)
        normalized_vector_scores == _normalize_scores(vector_scores)
        normalized_bm25_scores ==
            IF bm25_scores # <<>> THEN normalize_scores(bm25_scores) ELSE <<>>
        combined_map == combined_map_of(vec_res, Len(vec_res), bm25_map,
                                        normalized_vector_scores, normalized_bm25_scores)
    IN  SortDesc(OD_values(combined_map))

\* the threshold filter of _hybrid_search: "if score_threshold:" is false
\* for None and for 0.0
threshold_filter(combined, score_threshold) ==
    IF score_threshold # None /\ score_threshold # RZero
    THEN SelectSeq(combined, LAMBDA r : RLeq(score_threshold, r.score))
    ELSE combined

\* what _hybrid_search returns after fusion: "combined_results[:top_k]"
hybrid_return(combined, score_threshold, top_k) ==
    Prefix(threshold_filter(combined, score_threshold), top_k)

\* what _hybrid_search returns when build_index raised: "vector_results[:top_k]"
fallback_return_unbounded(vec_res, top_k) == vec_res

fallback_return(vec_res, top_k) == Prefix(vec_res, top_k)

\* the arguments _vector_search gives to vector_store.search
vector_store_request(rq) == [top_k |-> rq.top_k, score_threshold |-> rq.score_threshold]

\* a hybrid search that asks the store as the vector search does
hybrid_store_request_as_asked(rq) ==
    [top_k |-> rq.top_k, score_threshold |-> rq.score_threshold]

\* the arguments _hybrid_search gives to vector_store.search: top_k * 2 and
\* no score_threshold (the parameter's default, None)
hybrid_store_request(rq) == [top_k |-> rq.top_k * 2, score_threshold |-> None]

\* the top_k _hybrid_search gives to bm25_service.search
bm25_top_k(rq) == rq.top_k * 2

\* RetrievalService._hybrid_search from the return of vector_store.search
\* on, as a function of the BM25Service state st, the request rq and the
\* store's answer: the state it leaves and the values of its locals
hybrid_outcome(st, rq, answer, tokenizer_fails) ==
    IF answer # <<>> /\ build_index_raises(answer, tokenizer_fails)
    THEN [st |-> st, build_raised |-> TRUE, bm25_results |-> <<>>,
          combined_results |-> <<>>, results |-> fallback_return(answer, rq.top_k)]
    ELSE LET st1 == IF answer # <<>> THEN build_index(st, rq.collection_name, answer)
                    ELSE st
             bm25_res == BM25Service_search(st1, rq.collection_name, rq.query,
                                            bm25_top_k(rq))
             combined == _combine_results(st1, answer, bm25_res, rq.collection_name,
                                          rq.top_k)
         IN  [st |-> st1, build_raised |-> FALSE, bm25_results |-> bm25_res,
              combined_results |-> combined,
              results |-> hybrid_return(combined, rq.score_threshold, rq.top_k)]

(***************************************************************************)
(* RecursiveCharacterTextSplitter (app/utils/text_splitter.py)             *)
(*                                                                         *)
(* A string handled by the splitter is a sequence of [ch, pos]: the        *)
(* character and the position in the document it was taken from.  The code *)
(* sees ch only; pos records which part of the document a chunk holds.     *)
(***************************************************************************)
Chars(s) == [i \in DOMAIN s |-> s[i].ch]
Tagged(cs) == [i \in DOMAIN cs |-> [ch |-> cs[i], pos |-> i]]

RECURSIVE Concat(_)
Concat(ss) == IF ss = <<>> THEN <<>> ELSE ss[1] \o Concat(Tail(ss))

\* the default separator list of __init__; ".", "!" and "?" stand for the
\* full-width marks of the source, "" is the empty separator
DefaultSeparators ==
    << <<"\n", "\n">>, <<"\n">>, <<".">>, <<"!">>, <<"?">>, <<" ">>, <<>> >>

\* tiktoken's cl100k_base, reduced to the merges that matter on the model's
\* alphabet: a doubled letter, a blank followed by a letter and a doubled
\* newline are one token each; every other character is a token of its own
Merges == { <<"a", "a">>, <<" ", "a">>, <<"\n", "\n">> }

RECURSIVE encode(_)
encode(s) ==
    IF s = <<>> THEN <<>>
    ELSE IF Len(s) >= 2 /\ <<s[1].ch, s[2].ch>> \in Merges
         THEN <<SubSeq(s, 1, 2)>> \o encode(SubSeq(s, 3, Len(s)))
         ELSE <<SubSeq(s, 1, 1)>> \o encode(Tail(s))

decode(tokens) == Concat(tokens)

\* RecursiveCharacterTextSplitter._count_tokens
_count_tokens(self, s) ==
    IF self.encoding THEN Len(encode(s)) ELSE Len(s)

\* str.split(separator) for a non-empty separator: the pieces between the
\* occurrences found left to right, each with the occurrence that ended it
\* (<<>> for the last piece)
IsAt(s, i, separator) ==
    /\ i + Len(separator) - 1 <= Len(s)
    /\ \A k \in 1..Len(separator) : s[i + k - 1].ch = separator[k]

RECURSIVE str_split(_, _)
str_split(s, separator) ==
    IF \E i \in 1..Len(s) : IsAt(s, i, separator)
    THEN LET i == CHOOSE j \in 1..Len(s) :
                     IsAt(s, j, separator) /\ \A k \in 1..(j - 1) : ~IsAt(s, k, separator)
         IN  <<[piece |-> SubSeq(s, 1, i - 1),
                sep |-> SubSeq(s, i, i + Len(separator) - 1)]>>
             \o str_split(SubSeq(s, i + Len(separator), Len(s)), separator)
    ELSE <<[piece |-> s, sep |-> <<>>]>>

\* with_separator without the separator put back
without_separator(splits, i) == splits[i].piece

\* "split = split + separator" for every piece but the last
with_separator(splits, i) ==
    IF i < Len(splits) THEN splits[i].piece \o splits[i].sep ELSE splits[i].piece

\* new_separators_of with the separator list handed on as it is
new_separators_kept(separators) == separators

\* "new_separators = separators[1:]"
new_separators_of(separators) == Tail(separators)

\* RecursiveCharacterTextSplitter._split_text; split_loop is its for loop
\* from piece i on, with the locals chunks and current_chunk
RECURSIVE _split_text(_, _, _)
RECURSIVE split_loop(_, _, _, _, _, _)
split_loop(self, splits, new_separators, i, chunks, current_chunk) ==
    IF i > Len(splits)
    THEN IF current_chunk # <<>> THEN Append(chunks, current_chunk) ELSE chunks
    ELSE LET split == with_separator(splits, i)
         IN  IF current_chunk = <<>>
             THEN split_loop(self, splits, new_separators, i + 1, chunks, split)
             ELSE IF _count_tokens(self, current_chunk \o split) <= self.chunk_size
             THEN split_loop(self, splits, new_separators, i + 1, chunks,
                             current_chunk \o split)
             ELSE IF _count_tokens(self, split) > self.chunk_size
             THEN \* current_chunk is appended and kept as it is
                  split_loop(self, splits, new_separators, i + 1,
                             Append(chunks, current_chunk)
                                 \o _split_text(self, split, new_separators),
                             current_chunk)
             ELSE split_loop(self, splits, new_separators, i + 1,
                             Append(chunks, current_chunk), split)

_split_text(self, s, separators) ==
    IF s = <<>> THEN <<>>
    ELSE IF Len(separators) = 0 THEN <<s>>
    ELSE IF separators[1] = <<>> THEN <<s>>
    ELSE split_loop(self, str_split(s, separators[1]), new_separators_of(separators),
                    1, <<>>, <<>>)

\* the recursive invocations made below _split_text(self, s, separators):
\* each with the separator list of the caller and the one it hands on.
\* calls_loop follows the for loop of _split_text from piece i on.
RECURSIVE split_calls(_, _, _)
RECURSIVE calls_loop(_, _, _, _, _)
calls_loop(self, splits, separators, i, current_chunk) ==
    IF i > Len(splits) THEN {}
    ELSE LET split == with_separator(splits, i)
         IN  IF current_chunk = <<>>
             THEN calls_loop(self, splits, separators, i + 1, split)
             ELSE IF _count_tokens(self, current_chunk \o split) <= self.chunk_size
             THEN calls_loop(self, splits, separators, i + 1, current_chunk \o split)
             ELSE IF _count_tokens(self, split) > self.chunk_size
             THEN {[caller |-> separators, callee |-> new_separators_of(separators),
                    piece |-> Chars(split)]}
                  \cup split_calls(self, split, new_separators_of(separators))
                  \cup calls_loop(self, splits, separators, i + 1, current_chunk)
             ELSE calls_loop(self, splits, separators, i + 1, split)

split_calls(self, s, separators) ==
    IF s = <<>> \/ Len(separators) = 0 \/ separators[1] = <<>> THEN {}
    ELSE calls_loop(self, str_split(s, separators[1]), separators, 1, <<>>)

\* _get_overlap_text taking the leading tokens instead of the trailing ones
_get_overlap_text_leading(self, s, overlap_tokens) ==
    LET tokens == IF self.encoding THEN encode(s) ELSE [i \in DOMAIN s |-> <<s[i]>>]
    IN  IF Len(tokens) <= overlap_tokens THEN s
        ELSE decode(SubSeq(tokens, 1, overlap_tokens))

\* RecursiveCharacterTextSplitter._get_overlap_text
_get_overlap_text(self, s, overlap_tokens) ==
    LET tokens == IF self.encoding THEN encode(s) ELSE [i \in DOMAIN s |-> <<s[i]>>]
    IN  IF Len(tokens) <= overlap_tokens THEN s
        ELSE decode(SubSeq(tokens, Len(tokens) - overlap_tokens + 1, Len(tokens)))

\* the chunk list of split_text before the overlap is prepended
ungapped_chunks(self, s) ==
    IF _count_tokens(self, s) <= self.chunk_size THEN <<s>>
    ELSE _split_text(self, s, self.separators)

\* split_text without the early return for a text within chunk_size
split_text_without_shortcut(self, s) ==
    LET chunks == _split_text(self, s, self.separators)
    IN  IF self.chunk_overlap > 0
        THEN [i \in DOMAIN chunks |->
                IF i = 1 THEN chunks[i]
                ELSE _get_overlap_text(self, chunks[i - 1], self.chunk_overlap)
                     \o chunks[i]]
        ELSE chunks

\* RecursiveCharacterTextSplitter.split_text
split_text(self, s) ==
    IF _count_tokens(self, s) <= self.chunk_size THEN <<s>>
    ELSE LET chunks == _split_text(self, s, self.separators)
         IN  IF self.chunk_overlap > 0
             THEN [i \in DOMAIN chunks |->
                     IF i = 1 THEN chunks[i]
                     ELSE _get_overlap_text(self, chunks[i - 1], self.chunk_overlap)
                          \o chunks[i]]
             ELSE chunks

\* RecursiveCharacterTextSplitter.create_chunks (chunk_index is 0-based)
create_chunks(self, s, doc_id, filename, meta) ==
    LET text_chunks == split_text(self, s)
    IN  [idx \in DOMAIN text_chunks |->
            [content |-> Chars(text_chunks[idx]), doc_id |-> doc_id,
             chunk_index |-> idx - 1, filename |-> filename, metadata |-> meta]]

\* RecursiveCharacterTextSplitter.__init__: "x or default" takes the default
\* for None and for every falsy x (0, the empty list)
NoArg == 0 - 1             \* None passed for an integer argument
FalsyInt(x) == x = NoArg \/ x = 0
FalsySeq(x) == x = <<>>    \* None or the empty list

splitter__init__(settings, chunk_size, chunk_overlap, separators, tiktoken_loads) ==
    [chunk_size |-> IF FalsyInt(chunk_size) THEN settings.chunk_size ELSE chunk_size,
     chunk_overlap |-> IF FalsyInt(chunk_overlap) THEN settings.chunk_overlap
                       ELSE chunk_overlap,
     separators |-> IF FalsySeq(separators) THEN DefaultSeparators ELSE separators,
     encoding |-> tiktoken_loads]

(***************************************************************************)
(* RerankService (app/services/rerank_service.py)                          *)
(***************************************************************************)
\* settings.rerank_top_k = 3
rerank_top_k == 3

\* self.model before a CrossEncoder is loaded
NoModel == "None"

\* RerankService._load_model: CrossEncoder(settings.rerank_model) returns
\* the model, or raises and the except clause switches the reranker off
_load_model(self, load_fails) ==
    IF load_fails
    THEN [self EXCEPT !.use_rerank = FALSE]
    ELSE [self EXCEPT !.model = "CrossEncoder"]

\* RerankService.__init__
RerankService__init__(settings_use_rerank, load_fails) ==
    LET self == [model |-> NoModel, use_rerank |-> settings_use_rerank]
    IN  IF self.use_rerank THEN _load_model(self, load_fails) ELSE self

\* the guard of rerank's early return is false: the model is invoked
invokes_model(self, docs) ==
    self.use_rerank /\ self.model # NoModel /\ docs # <<>>

\* reranked_docs.sort(key=lambda x: x["rerank_score"], reverse=True): stable,
\* equal scores keep their order
RECURSIVE InsertByRerankScore(_, _)
InsertByRerankScore(sorted, x) ==
    IF sorted = <<>> THEN <<x>>
    ELSE IF sorted[1].rerank_score < x.rerank_score
         THEN <<x>> \o sorted
         ELSE <<sorted[1]>> \o InsertByRerankScore(Tail(sorted), x)

RECURSIVE SortByRerankScore(_)
SortByRerankScore(s) ==
    IF s = <<>> THEN <<>>
    ELSE InsertByRerankScore(SortByRerankScore(SubSeq(s, 1, Len(s) - 1)), s[Len(s)])

\* the copy of a document with its score attached
with_rerank_score(doc, score) == [rerank_score |-> score] @@ doc

\* RerankService.rerank.  top_k is NoArg (None) or an int >= 0; predict is
\* what self.model.predict does when it is called: it raises, or it scores
\* every pair [query, content]
rerank(self, query, docs, top_k, predict) ==
    IF ~invokes_model(self, docs)
    THEN IF FalsyInt(top_k) THEN docs ELSE Prefix(docs, top_k)
    ELSE LET top_k_used == IF FalsyInt(top_k) THEN rerank_top_k ELSE top_k
             pairs == [i \in DOMAIN docs |-> <<query, docs[i].content>>]
         IN  IF predict.outcome = "raises"
             THEN Prefix(docs, top_k_used)
             ELSE LET scores == [i \in DOMAIN pairs |-> predict.score[pairs[i]]]
                      reranked_docs == [idx \in DOMAIN scores |->
                                           with_rerank_score(docs[idx], scores[idx])]
                  IN  Prefix(SortByRerankScore(reranked_docs), top_k_used)

(***************************************************************************)
(* The chat route (app/routers/rag.py)                                     *)
(***************************************************************************)
\* the arguments chat gives to retrieval_service.hybrid_search
chat_search_request(request) ==
    [query |-> request.query, collection_name |-> request.collection_name,
     top_k |-> IF request.use_rerank THEN request.top_k * 2 ELSE request.top_k,
     score_threshold |-> None, use_hybrid |-> TRUE]

\* whether chat hands the search results to the reranker
chat_reranks(request, search_results) == request.use_rerank /\ search_results # <<>>

\* chat passing no top_k to the reranker
chat_sources_default_top_k(self, request, search_results, predict) ==
    IF chat_reranks(request, search_results)
    THEN rerank(self, request.query, search_results, NoArg, predict)
    ELSE search_results

\* the list chat hands to llm_service.generate as context and returns as
\* sources
chat_sources(self, request, search_results, predict) ==
    IF chat_reranks(request, search_results)
    THEN rerank(self, request.query, search_results, request.top_k, predict)
    ELSE Prefix(search_results, request.top_k)

(***************************************************************************)
(* DocumentService (app/services/document_service.py)                      *)
(***************************************************************************)
\* the keys upload_document sets itself in a chunk's payload
ReservedKeys == {"chunk_id", "doc_id", "chunk_index", "filename"}

\* "metadata or {}": None and the empty dict give the empty dict
metadata_or_empty(meta) == IF meta = None THEN EmptyDict ELSE meta

\* chunk.get("chunk_id", f"{doc_id}_{chunk['chunk_index']}")
chunk_id_of(chunk, doc_id) ==
    IF "chunk_id" \in DOMAIN chunk THEN chunk.chunk_id
    ELSE doc_id \o "_" \o ToString(chunk.chunk_index)

\* the payload of a chunk with the user's metadata spread over it unfiltered
payload_of_unfiltered(chunk, doc_id) ==
    metadata_or_empty(chunk.metadata)
    @@ [chunk_id |-> chunk_id_of(chunk, doc_id), doc_id |-> chunk.doc_id,
        chunk_index |-> chunk.chunk_index, filename |-> chunk.filename]

\* one element of "metadatas": the four keys of the service, then the
\* user's metadata without the keys of these names
payload_of(chunk, doc_id) ==
    LET user == metadata_or_empty(chunk.metadata)
    IN  [k \in DOMAIN user \ ReservedKeys |-> user[k]]
        @@ [chunk_id |-> chunk_id_of(chunk, doc_id), doc_id |-> chunk.doc_id,
            chunk_index |-> chunk.chunk_index, filename |-> chunk.filename]

\* the record upload_document puts into self.documents after parsing
doc_info_of(doc_id, filename, meta) ==
    [doc_id |-> doc_id, filename |-> filename, status |-> "processing",
     chunks_count |-> 0, metadata |-> metadata_or_empty(meta)]

\* the record with its status left at "completed" but its count untouched
completed_info_uncounted(doc_info, chunks) ==
    [doc_info EXCEPT !.status = "completed"]

\* doc_info["status"] = "completed"; doc_info["chunks_count"] = len(chunks)
completed_info(doc_info, chunks) ==
    [doc_info EXCEPT !.status = "completed", !.chunks_count = Len(chunks)]

\* a check that lets every doc_id through
is_registered_unchecked(documents, doc_id) == TRUE

\* delete_document's "if doc_id not in self.documents: raise ValueError"
is_registered(documents, doc_id) == doc_id \in DOMAIN documents

\* a dict without one key (del d[k])
DictDel(d, k) == [x \in DOMAIN d \ {k} |-> d[x]]

\* the points of a collection without those of a document
\* (VectorStore.delete_by_doc_id)
without_doc(stored, doc_id) == {p \in stored : p.metadata.doc_id # doc_id}

(***************************************************************************)
(* State                                                                   *)
(***************************************************************************)
VARIABLES
    indexes,           \* BM25Service.indexes:   collection -> BM25Okapi
    documents,         \* BM25Service.documents: collection -> list of texts
    metadata,          \* BM25Service.metadata:  collection -> list of {chunk_id, content}
    pc,                \* position of the hybrid_search call in flight
    req,               \* its arguments
    vector_results,    \* what vector_store.search returned to it
    build_raised,      \* whether build_index raised in this call
    bm25_results,      \* what bm25_service.search returned to it
    combined_results,  \* what _combine_results returned to it
    results,           \* the list hybrid_search returned
    outcome,           \* "none", "returned" or "raised"
    store_requests,    \* the arguments of its calls of vector_store.search
    lexical_top_k,     \* the top_k of its call of bm25_service.search, if any
    norm_pc,           \* normaliser calls: "off", "ready" or "done"
    norm_in,           \* the score list passed to the normalisers
    norm_bm25,         \* BM25Service.normalize_scores(norm_in)
    norm_retrieval,    \* RetrievalService._normalize_scores(norm_in)
    split_pc,          \* splitter: "off", "new", "ready" or "done"
    settings,          \* settings.chunk_size, settings.chunk_overlap
    ctor_args,         \* the arguments the splitter was constructed with
    splitter,          \* the RecursiveCharacterTextSplitter object
    text,              \* the document text given to create_chunks
    ungapped,          \* split_text's chunk list before the overlap
    text_chunks,       \* what split_text returned
    chunk_records,     \* what create_chunks returned
    lex_pc,            \* BM25Service driven directly: "off" or "on"
    lex_op,            \* the last BM25Service call and whether it raised
    lex_out,           \* what the last BM25Service.search returned
    conc_pc,           \* several requests in flight: "off" or "on"
    calls,             \* request -> its position, arguments and locals
    rr_pc,             \* reranker: "off", "new" (not constructed), "ready", "returned"
    rerank_service,    \* the RerankService object: model, use_rerank
    load_attempts,     \* how many times CrossEncoder(...) was called
    load_failed,       \* whether CrossEncoder(...) raised at construction
    rr_call,           \* the last rerank call: arguments, model behaviour
    rr_out,            \* what the last rerank call returned
    predict_failed,    \* whether self.model.predict has raised in some call
    chat_pc,           \* chat request: "off", "idle", "search", "rank", "generate",
                       \* "answered" or "raised"
    chat_req,          \* the ChatRequest
    search_results,    \* what hybrid_search returned to chat
    sources,           \* the list chat hands to answer generation
    doc_pc,            \* document service: "off" or "on"
    doc_registry,      \* DocumentService.documents: doc_id -> doc_info
    points,            \* the vector store: collection -> set of stored points
    uuids_used,        \* how many uuid4() values were drawn
    uploads,           \* upload request -> its position and locals
    deletes            \* delete request -> its position and arguments

bm25vars == <<indexes, documents, metadata>>
callvars == <<pc, req, vector_results, build_raised, bm25_results, combined_results,
              results, outcome, store_requests, lexical_top_k>>
normvars == <<norm_pc, norm_in, norm_bm25, norm_retrieval>>
splitvars == <<split_pc, settings, ctor_args, splitter, text, ungapped, text_chunks,
               chunk_records>>
lexvars == <<lex_pc, lex_op, lex_out>>
\* the variables of the sub-models added to the first three
concvars == <<conc_pc, calls>>
rrvars == <<rr_pc, rerank_service, load_attempts, load_failed, rr_call, rr_out,
            predict_failed>>
chatvars == <<chat_pc, chat_req, search_results, sources>>
\* the variables of the sub-models that follow the reranker's
docvars == <<doc_pc, doc_registry, points, uuids_used, uploads, deletes>>
latervars == <<chatvars, docvars>>
extravars == <<lexvars, concvars, rrvars, latervars>>

vars == <<indexes, documents, metadata, pc, req, vector_results, build_raised,
          bm25_results, combined_results, results, outcome, store_requests,
          lexical_top_k,
          norm_pc, norm_in, norm_bm25, norm_retrieval,
          split_pc, settings, ctor_args, splitter, text, ungapped, text_chunks,
          chunk_records, lex_pc, lex_op, lex_out, conc_pc, calls,
          rr_pc, rerank_service, load_attempts, load_failed, rr_call, rr_out,
          predict_failed, chat_pc, chat_req, search_results, sources,
          doc_pc, doc_registry, points, uuids_used, uploads, deletes>>

(***************************************************************************)
(* Operations                                                              *)
(***************************************************************************)
RetrievalInit ==
    /\ indexes = EmptyDict
    /\ documents = EmptyDict
    /\ metadata = EmptyDict
    /\ pc = "idle"
    /\ req = NoReq
    /\ vector_results = <<>>
    /\ build_raised = FALSE
    /\ bm25_results = <<>>
    /\ combined_results = <<>>
    /\ results = <<>>
    /\ outcome = "none"
    /\ store_requests = <<>>
    /\ lexical_top_k = NoArg

NoSettings == [chunk_size |-> 0, chunk_overlap |-> 0]
NoCtorArgs == [chunk_size |-> NoArg, chunk_overlap |-> NoArg, separators |-> None]
NoSplitter == [chunk_size |-> 0, chunk_overlap |-> 0, separators |-> <<>>,
               encoding |-> FALSE]

NormOff ==
    /\ norm_pc = "off"
    /\ norm_in = <<>>
    /\ norm_bm25 = <<>>
    /\ norm_retrieval = <<>>

SplitOff ==
    /\ split_pc = "off"
    /\ settings = NoSettings
    /\ ctor_args = NoCtorArgs
    /\ splitter = NoSplitter
    /\ text = <<>>
    /\ ungapped = <<>>
    /\ text_chunks = <<>>
    /\ chunk_records = <<>>

NoLexOp == [op |-> "none", collection_name |-> "", query |-> <<>>, top_k |-> 0,
            raised |-> FALSE]

LexOff ==
    /\ lex_pc = "off"
    /\ lex_op = NoLexOp
    /\ lex_out = <<>>

ConcOff ==
    /\ conc_pc = "off"
    /\ calls = <<>>

NoRerankService == [model |-> NoModel, use_rerank |-> FALSE]
NotCalled == [outcome |-> "not called", score |-> <<>>]
NoRerankCall == [query |-> <<>>, documents |-> <<>>, top_k |-> NoArg,
                 predict |-> NotCalled]

RerankIdle ==
    /\ rerank_service = NoRerankService
    /\ load_attempts = 0
    /\ load_failed = FALSE
    /\ rr_call = NoRerankCall
    /\ rr_out = <<>>
    /\ predict_failed = FALSE

RerankOff == rr_pc = "off" /\ RerankIdle

NoChatRequest == [query |-> <<>>, collection_name |-> "", top_k |-> 0,
                  use_rerank |-> FALSE]

ChatIdle ==
    /\ chat_req = NoChatRequest
    /\ search_results = <<>>
    /\ sources = <<>>

ChatOff == chat_pc = "off" /\ ChatIdle

DocOff ==
    /\ doc_pc = "off"
    /\ doc_registry = EmptyDict
    /\ points = EmptyDict
    /\ uuids_used = 0
    /\ uploads = <<>>
    /\ deletes = <<>>

LaterOff == ChatOff /\ DocOff

ExtraOff == LexOff /\ ConcOff /\ RerankOff /\ LaterOff

Init == RetrievalInit /\ NormOff /\ SplitOff /\ ExtraOff

\* a caller invokes hybrid_search; the call suspends in embed_query
hybrid_search(query, collection_name, top_k, score_threshold, use_hybrid) ==
    /\ pc = "idle"
    /\ pc' = "embed"
    /\ req' = [query |-> query, collection_name |-> collection_name, top_k |-> top_k,
               score_threshold |-> score_threshold, use_hybrid |-> use_hybrid]
    /\ UNCHANGED <<bm25vars, vector_results, build_raised, bm25_results,
                   combined_results, results, outcome, store_requests, lexical_top_k,
                   normvars, splitvars, extravars>>

\* embed_query returns; the call suspends in vector_store.search
embed_query_returns ==
    /\ pc = "embed"
    /\ pc' = "search"
    /\ UNCHANGED <<bm25vars, req, vector_results, build_raised, bm25_results,
                   combined_results, results, outcome, store_requests, lexical_top_k,
                   normvars, splitvars, extravars>>

\* embed_query or vector_store.search raises: the exception propagates
collaborator_raises ==
    /\ pc \in {"embed", "search"}
    /\ pc' = "done"
    /\ outcome' = "raised"
    /\ UNCHANGED <<bm25vars, req, vector_results, build_raised, bm25_results,
                   combined_results, results, store_requests, lexical_top_k,
                   normvars, splitvars, extravars>>

\* RetrievalService._vector_search from the return of vector_store.search on
_vector_search ==
    /\ pc = "search"
    /\ ~req.use_hybrid
    /\ \E rqst \in {vector_store_request(req)} :
       \E answer \in VectorStore_search(req.collection_name, rqst.top_k,
                                         rqst.score_threshold) :
          /\ store_requests' = Append(store_requests, rqst)
          /\ vector_results' = answer
          /\ results' = answer
    /\ outcome' = "returned"
    /\ pc' = "done"
    /\ UNCHANGED <<bm25vars, req, build_raised, bm25_results, combined_results,
                   lexical_top_k, normvars, splitvars, extravars>>

\* RetrievalService._hybrid_search from the return of vector_store.search on:
\* there is no suspension point between the index build and the return
_hybrid_search(tokenizer_fails) ==
    /\ pc = "search"
    /\ req.use_hybrid
    /\ pc' = "done"
    /\ outcome' = "returned"
    /\ UNCHANGED <<req, normvars, splitvars, extravars>>
    /\ \E rqst \in {hybrid_store_request(req)} :
       \E answer \in VectorStore_search(req.collection_name, rqst.top_k,
                                         rqst.score_threshold) :
          /\ store_requests' = Append(store_requests, rqst)
          /\ vector_results' = answer
          /\ IF answer # <<>> /\ build_index_raises(answer, tokenizer_fails)
             THEN /\ build_raised' = TRUE
                  /\ results' = fallback_return(answer, req.top_k)
                  /\ UNCHANGED <<bm25vars, bm25_results, combined_results, lexical_top_k>>
             ELSE \E st1 \in {IF answer # <<>>
                              THEN build_index([indexes |-> indexes, documents |-> documents,
                                                metadata |-> metadata],
                                               req.collection_name, answer)
                              ELSE [indexes |-> indexes, documents |-> documents,
                                    metadata |-> metadata]} :
                  \E bm25_res \in {BM25Service_search(st1, req.collection_name, req.query,
                                                      bm25_top_k(req))} :
                  \E combined \in {_combine_results(st1, answer, bm25_res,
                                                    req.collection_name, req.top_k)} :
                      /\ build_raised' = FALSE
                      /\ indexes' = st1.indexes
                      /\ documents' = st1.documents
                      /\ metadata' = st1.metadata
                      /\ bm25_results' = bm25_res
                      /\ lexical_top_k' = bm25_top_k(req)
                      /\ combined_results' = combined
                      /\ results' = hybrid_return(combined, req.score_threshold, req.top_k)

\* the caller has consumed the outcome; the service is ready for the next call
call_finished ==
    /\ pc = "done"
    /\ pc' = "idle"
    /\ req' = NoReq
    /\ vector_results' = <<>>
    /\ build_raised' = FALSE
    /\ bm25_results' = <<>>
    /\ combined_results' = <<>>
    /\ results' = <<>>
    /\ outcome' = "none"
    /\ store_requests' = <<>>
    /\ lexical_top_k' = NoArg
    /\ UNCHANGED <<bm25vars, normvars, splitvars, extravars>>

Next ==
    \/ \E q \in Queries, c \in Collections, k \in 1..MaxTopK, t \in Thresholds,
          h \in BOOLEAN : hybrid_search(q, c, k, t, h)
    \/ embed_query_returns
    \/ collaborator_raises
    \/ _vector_search
    \/ \E f \in BOOLEAN : _hybrid_search(f)
    \/ call_finished

Spec == Init /\ [][Next]_vars

TypeOK ==
    /\ pc \in {"idle", "embed", "search", "done"}
    /\ outcome \in {"none", "returned", "raised"}
    /\ DOMAIN indexes \subseteq Collections

(***************************************************************************)
(* The two normalisers applied to one score list                           *)
(***************************************************************************)
MaxNormLen == 3

NormVals == {R(0 - 2, 10), R(0, 1), R(3, 10), R(5, 10), R(1, 1)}

ScoreLists == UNION {[1..n -> NormVals] : n \in 0..MaxNormLen}

InitNorm ==
    /\ RetrievalInit
    /\ SplitOff
    /\ ExtraOff
    /\ norm_pc = "ready"
    /\ norm_in \in ScoreLists
    /\ norm_bm25 = <<>>
    /\ norm_retrieval = <<>>

normalize_call ==
    /\ norm_pc = "ready"
    /\ norm_pc' = "done"
    /\ norm_bm25' = normalize_scores(norm_in)
    /\ norm_retrieval' = _normalize_scores(norm_in)
    /\ UNCHANGED <<norm_in, bm25vars, callvars, splitvars, extravars>>

NextNorm == normalize_call

SpecNorm == InitNorm /\ [][NextNorm]_vars

(***************************************************************************)
(* The splitter: construction, then create_chunks on one document          *)
(***************************************************************************)
MaxTextLen == 5
MaxChunkSize == 3
MaxOverlap == 1

Alphabet == {"a", " ", "\n"}

Texts == UNION {[1..n -> Alphabet] : n \in 0..MaxTextLen}

\* a separator list passed by a caller: no empty-string fallback at its end
CustomSeparators == << <<"\n">>, <<" ">> >>

InitSplit ==
    /\ RetrievalInit
    /\ NormOff
    /\ ExtraOff
    /\ split_pc = "new"
    /\ settings \in [chunk_size : 1..MaxChunkSize, chunk_overlap : 0..MaxOverlap]
    /\ ctor_args = NoCtorArgs
    /\ splitter = NoSplitter
    /\ text \in Texts
    /\ ungapped = <<>>
    /\ text_chunks = <<>>
    /\ chunk_records = <<>>

\* RecursiveCharacterTextSplitter(chunk_size, chunk_overlap, separators)
splitter_new(chunk_size, chunk_overlap, separators, tiktoken_loads) ==
    /\ split_pc = "new"
    /\ split_pc' = "ready"
    /\ ctor_args' = [chunk_size |-> chunk_size, chunk_overlap |-> chunk_overlap,
                     separators |-> separators]
    /\ splitter' = splitter__init__(settings, chunk_size, chunk_overlap, separators,
                                    tiktoken_loads)
    /\ UNCHANGED <<settings, text, ungapped, text_chunks, chunk_records,
                   bm25vars, callvars, normvars, extravars>>

\* splitter.create_chunks(text, doc_id, filename, metadata)
create_chunks_call ==
    /\ split_pc = "ready"
    /\ split_pc' = "done"
    /\ ungapped' = ungapped_chunks(splitter, Tagged(text))
    /\ text_chunks' = split_text(splitter, Tagged(text))
    /\ chunk_records' = create_chunks(splitter, Tagged(text), "doc", "file", EmptyDict)
    /\ UNCHANGED <<settings, ctor_args, splitter, text, bm25vars, callvars, normvars, extravars>>

NextSplit ==
    \/ \E cs \in {NoArg, 2}, co \in {NoArg} \cup (0..MaxOverlap),
          seps \in {None, CustomSeparators}, tk \in BOOLEAN :
          splitter_new(cs, co, seps, tk)
    \/ create_chunks_call

SpecSplit == InitSplit /\ [][NextSplit]_vars

(***************************************************************************)
(* BM25Service on its own: any sequence of build_index and search calls    *)
(***************************************************************************)
MaxDocs == 3
MaxLexTopK == 2

\* the documents handed to build_index, in this order when in one list
IndexableDocs ==
    << [chunk_id |-> "",   content |-> <<"m">>],
       [chunk_id |-> "c2", content |-> <<"m", " ", "x">>],
       [chunk_id |-> "c1", content |-> <<"l">>],
       [chunk_id |-> "",   content |-> <<"x">>] >>

\* a document without text: a list of such documents has no token at all
EmptyDoc == [chunk_id |-> "d1", content |-> <<>>]

RECURSIVE Pick(_, _)
Pick(seq, positions) ==
    IF positions = {} THEN <<>>
    ELSE LET p == CHOOSE x \in positions : \A y \in positions : x <= y
         IN  <<seq[p]>> \o Pick(seq, positions \ {p})

DocLists ==
    { Pick(IndexableDocs, P) :
        P \in {Q \in SUBSET DOMAIN IndexableDocs : Cardinality(Q) <= MaxDocs} }
    \cup { <<EmptyDoc>> }

InitIndex ==
    /\ RetrievalInit
    /\ NormOff
    /\ SplitOff
    /\ lex_pc = "on"
    /\ lex_op = NoLexOp
    /\ lex_out = <<>>
    /\ ConcOff
    /\ RerankOff
    /\ LaterOff

\* bm25_service.build_index(collection_name, docs)
build_index_call(collection_name, docs, tokenizer_fails) ==
    /\ lex_pc = "on"
    /\ \E st \in {[indexes |-> indexes, documents |-> documents, metadata |-> metadata]} :
       \E raised \in {build_index_raises(docs, tokenizer_fails)} :
       \E st1 \in {IF raised THEN build_index_on_raise(st, collection_name, docs)
                               ELSE build_index(st, collection_name, docs)} :
          /\ indexes' = st1.indexes
          /\ documents' = st1.documents
          /\ metadata' = st1.metadata
          /\ lex_op' = [op |-> "build", collection_name |-> collection_name,
                        query |-> <<>>, top_k |-> 0, raised |-> raised]
    /\ lex_out' = <<>>
    /\ UNCHANGED <<lex_pc, callvars, normvars, splitvars, concvars, rrvars, latervars>>

\* bm25_service.search(collection_name, query, top_k)
search_call(collection_name, query, top_k) ==
    /\ lex_pc = "on"
    /\ lex_out' = BM25Service_search([indexes |-> indexes, documents |-> documents,
                                      metadata |-> metadata],
                                     collection_name, query, top_k)
    /\ lex_op' = [op |-> "search", collection_name |-> collection_name,
                  query |-> query, top_k |-> top_k, raised |-> FALSE]
    /\ UNCHANGED <<lex_pc, bm25vars, callvars, normvars, splitvars, concvars, rrvars, latervars>>

NextIndex ==
    \/ \E c \in Collections, docs \in DocLists, f \in BOOLEAN : build_index_call(c, docs, f)
    \/ \E c \in Collections, q \in Queries, k \in 0..MaxLexTopK : search_call(c, q, k)

SpecIndex == InitIndex /\ [][NextIndex]_vars

(***************************************************************************)
(* Hybrid searches in flight together on one RetrievalService.  A request  *)
(* is a coroutine on the event loop: it gives way at "await embed_query"   *)
(* and at "await vector_store.search" only, and runs from the store's      *)
(* answer to its return without interruption.                              *)
(***************************************************************************)
Requests == {1, 2}

\* the store's answers in this sub-model: no hit, or three hits in the
\* store's order with one score; for kbB no hit or its single point
ConcAnswers ==
    [c \in Collections |->
        { a \in AllStoreAnswers[c] :
            /\ Len(a) \in {0, 1, 3}
            /\ Len(a) = 1 => c = "kbB"
            /\ \A i \in DOMAIN a : a[i].score = R(8, 10)
            /\ \A i, j \in DOMAIN a : i < j => a[i].metadata._id < a[j].metadata._id }]

IdleCall == [pc |-> "idle", req |-> NoReq, vector_results |-> <<>>,
             build_raised |-> FALSE, bm25_results |-> <<>>,
             combined_results |-> <<>>, results |-> <<>>, outcome |-> "none"]

InitConc ==
    /\ RetrievalInit
    /\ NormOff
    /\ SplitOff
    /\ LexOff
    /\ RerankOff
    /\ LaterOff
    /\ conc_pc = "on"
    /\ calls = [r \in Requests |-> IdleCall]

\* request r enters hybrid_search (use_hybrid = True) and suspends in
\* embed_query
request_starts(r, query, collection_name, top_k) ==
    /\ conc_pc = "on"
    /\ calls[r].pc = "idle"
    /\ calls' = [calls EXCEPT ![r].pc = "embed",
                              ![r].req = [query |-> query,
                                          collection_name |-> collection_name,
                                          top_k |-> top_k, score_threshold |-> None,
                                          use_hybrid |-> TRUE]]
    /\ UNCHANGED <<conc_pc, bm25vars, callvars, normvars, splitvars, lexvars, rrvars, latervars>>

\* embed_query returns to r, which suspends in vector_store.search
request_embedded(r) ==
    /\ conc_pc = "on"
    /\ calls[r].pc = "embed"
    /\ calls' = [calls EXCEPT ![r].pc = "search"]
    /\ UNCHANGED <<conc_pc, bm25vars, callvars, normvars, splitvars, lexvars, rrvars, latervars>>

\* a collaborator raises in r's call
request_raises(r) ==
    /\ conc_pc = "on"
    /\ calls[r].pc \in {"embed", "search"}
    /\ calls' = [calls EXCEPT ![r].pc = "done", ![r].outcome = "raised"]
    /\ UNCHANGED <<conc_pc, bm25vars, callvars, normvars, splitvars, lexvars, rrvars, latervars>>

\* vector_store.search returns to r, which runs to its return
request_fuses(r, tokenizer_fails) ==
    /\ conc_pc = "on"
    /\ calls[r].pc = "search"
    /\ \E answer \in ConcAnswers[calls[r].req.collection_name] :
       \E out \in {hybrid_outcome([indexes |-> indexes, documents |-> documents,
                                    metadata |-> metadata],
                                   calls[r].req, answer, tokenizer_fails)} :
          /\ Len(answer) <= calls[r].req.top_k * 2
          /\ indexes' = out.st.indexes
          /\ documents' = out.st.documents
          /\ metadata' = out.st.metadata
          /\ calls' = [calls EXCEPT ![r] =
                          [pc |-> "done", req |-> calls[r].req,
                           vector_results |-> answer,
                           build_raised |-> out.build_raised,
                           bm25_results |-> out.bm25_results,
                           combined_results |-> out.combined_results,
                           results |-> out.results, outcome |-> "returned"]]
    /\ UNCHANGED <<conc_pc, callvars, normvars, splitvars, lexvars, rrvars, latervars>>

\* the caller of r has its outcome; r is free for the next request
request_finished(r) ==
    /\ conc_pc = "on"
    /\ calls[r].pc = "done"
    /\ calls' = [calls EXCEPT ![r] = IdleCall]
    /\ UNCHANGED <<conc_pc, bm25vars, callvars, normvars, splitvars, lexvars, rrvars, latervars>>

NextConc ==
    \/ \E r \in Requests, q \in Queries, c \in Collections, k \in 1..MaxTopK :
          request_starts(r, q, c, k)
    \/ \E r \in Requests : request_embedded(r)
    \/ \E r \in Requests : request_raises(r)
    \/ \E r \in Requests, f \in BOOLEAN : request_fuses(r, f)
    \/ \E r \in Requests : request_finished(r)

SpecConc == InitConc /\ [][NextConc]_vars

(***************************************************************************)
(* RerankService on its own: the object constructed once when the router   *)
(* module is imported, then rerank calls                                   *)
(***************************************************************************)
MaxCands == 4
MaxRerankTopK == 4

\* the candidates a caller may pass, as hybrid_search returns them
RerankDocs ==
    { [chunk_id |-> "c1", content |-> <<"l">>,           score |-> R(8, 10)],
      [chunk_id |-> "c2", content |-> <<"m", " ", "x">>, score |-> R(7, 10)],
      [chunk_id |-> "c3", content |-> <<"l">>,           score |-> R(5, 10)],
      [chunk_id |-> "c4", content |-> <<"x">>,           score |-> R(3, 10)] }

\* candidate lists: distinct candidates in any order
CandidateLists ==
    UNION { { f \in [1..n -> RerankDocs] : \A i, j \in 1..n : i # j => f[i] # f[j] } :
            n \in 0..MaxCands }

\* top_k: None or an int >= 0
RerankTopKs == {NoArg} \cup (0..MaxRerankTopK)

\* relevance scores the cross-encoder may give (logits)
ModelScores == {0 - 1, 2}

\* what self.model.predict may do in a call with these arguments
Predictions(self, query, docs) ==
    IF invokes_model(self, docs)
    THEN {[outcome |-> "raises", score |-> <<>>]}
         \cup { [outcome |-> "returns", score |-> f] :
                  f \in [{<<query, docs[i].content>> : i \in DOMAIN docs} -> ModelScores] }
    ELSE {NotCalled}

InitRerank ==
    /\ RetrievalInit /\ NormOff /\ SplitOff /\ LexOff /\ ConcOff /\ LaterOff
    /\ rr_pc = "new"
    /\ RerankIdle

\* routers/rag.py is imported: rerank_service = RerankService()
RerankService_new(settings_use_rerank, load_fails) ==
    /\ rr_pc = "new"
    /\ rr_pc' = "ready"
    /\ rerank_service' = RerankService__init__(settings_use_rerank, load_fails)
    /\ load_attempts' = IF settings_use_rerank THEN load_attempts + 1 ELSE load_attempts
    /\ load_failed' = (settings_use_rerank /\ load_fails)
    /\ UNCHANGED <<rr_call, rr_out, predict_failed, bm25vars, callvars, normvars,
                   splitvars, lexvars, concvars, latervars>>

\* one call of rerank_service.rerank(query, documents, top_k); it has no
\* await and reads self.use_rerank and self.model without assigning them
rerank_call(query, docs, top_k) ==
    /\ rr_pc = "ready"
    /\ rr_pc' = "returned"
    /\ \E predict \in Predictions(rerank_service, query, docs) :
          /\ rr_call' = [query |-> query, documents |-> docs, top_k |-> top_k,
                         predict |-> predict]
          /\ rr_out' = rerank(rerank_service, query, docs, top_k, predict)
          /\ predict_failed' = (predict_failed \/ predict.outcome = "raises")
    /\ UNCHANGED <<rerank_service, load_attempts, load_failed, bm25vars, callvars,
                   normvars, splitvars, lexvars, concvars, latervars>>

\* the caller is done with the list it was given; the service object stays
\* as it is for the next call
rerank_caller_done ==
    /\ rr_pc = "returned"
    /\ rr_pc' = "ready"
    /\ rr_call' = NoRerankCall
    /\ rr_out' = <<>>
    /\ UNCHANGED <<rerank_service, load_attempts, load_failed, predict_failed, bm25vars, callvars,
                   normvars, splitvars, lexvars, concvars, latervars>>

NextRerank ==
    \/ \E settings_use_rerank, load_fails \in BOOLEAN :
          RerankService_new(settings_use_rerank, load_fails)
    \/ \E query \in Queries, docs \in CandidateLists, top_k \in RerankTopKs :
          rerank_call(query, docs, top_k)
    \/ rerank_caller_done

SpecRerank == InitRerank /\ [][NextRerank]_vars

(***************************************************************************)
(* The chat route: one request at a time through retrieval, the reranker   *)
(* and answer generation                                                   *)
(***************************************************************************)
MaxChatTopK == 2

\* the collection the chat requests name
ChatCollection == "kbA"

\* the store's ranking of the collection's points for a chat query; an
\* answer is its first n hits
ChatRanking ==
    LET p(i) == CHOOSE x \in Points[ChatCollection] : x.id = i
    IN  << formatted_result(p(1), 8), formatted_result(p(2), 8),
           formatted_result(p(3), 3), formatted_result(p(4), 3) >>

ChatAnswers == { SubSeq(ChatRanking, 1, n) : n \in 0..Len(ChatRanking) }

InitChat ==
    /\ RetrievalInit /\ NormOff /\ SplitOff /\ LexOff /\ ConcOff
    /\ rr_pc = "new"
    /\ RerankIdle
    /\ chat_pc = "idle"
    /\ ChatIdle
    /\ DocOff

\* POST /chat with a valid ChatRequest; the services exist since the import
\* of the router module
chat(query, top_k, use_rerank) ==
    /\ rr_pc = "ready"
    /\ chat_pc = "idle"
    /\ chat_pc' = "search"
    /\ chat_req' = [query |-> query, collection_name |-> ChatCollection,
                    top_k |-> top_k, use_rerank |-> use_rerank]
    /\ UNCHANGED <<search_results, sources, bm25vars, callvars, normvars, splitvars,
                   lexvars, concvars, rrvars, docvars>>

\* retrieval_service.hybrid_search returns to chat
chat_search_returns(tokenizer_fails) ==
    /\ chat_pc = "search"
    /\ chat_pc' = "rank"
    /\ \E rq \in {chat_search_request(chat_req)} :
       \E answer \in ChatAnswers :
       \E out \in {hybrid_outcome([indexes |-> indexes, documents |-> documents,
                                    metadata |-> metadata], rq, answer, tokenizer_fails)} :
          /\ Len(answer) <= hybrid_store_request(rq).top_k
          /\ indexes' = out.st.indexes
          /\ documents' = out.st.documents
          /\ metadata' = out.st.metadata
          /\ search_results' = out.results
    /\ UNCHANGED <<chat_req, sources, callvars, normvars, splitvars, lexvars, concvars,
                   rrvars, docvars>>

\* embed_query or vector_store.search raises: chat answers with status 500
chat_search_raises ==
    /\ chat_pc = "search"
    /\ chat_pc' = "raised"
    /\ UNCHANGED <<chat_req, search_results, sources, bm25vars, callvars, normvars,
                   splitvars, lexvars, concvars, rrvars, docvars>>

\* the reranking step of chat: rerank_service.rerank, or the cut to top_k
chat_ranks ==
    /\ chat_pc = "rank"
    /\ chat_pc' = "generate"
    /\ \E predict \in IF chat_reranks(chat_req, search_results)
                      THEN Predictions(rerank_service, chat_req.query, search_results)
                      ELSE {NotCalled} :
          sources' = chat_sources(rerank_service, chat_req, search_results, predict)
    /\ UNCHANGED <<chat_req, search_results, bm25vars, callvars, normvars, splitvars,
                   lexvars, concvars, rrvars, docvars>>

\* llm_service.generate gets the sources as context and returns or raises
chat_generates(llm_fails) ==
    /\ chat_pc = "generate"
    /\ chat_pc' = IF llm_fails THEN "raised" ELSE "answered"
    /\ UNCHANGED <<chat_req, search_results, sources, bm25vars, callvars, normvars,
                   splitvars, lexvars, concvars, rrvars, docvars>>

\* the response is sent; the route takes the next request
chat_finished ==
    /\ chat_pc \in {"answered", "raised"}
    /\ chat_pc' = "idle"
    /\ chat_req' = NoChatRequest
    /\ search_results' = <<>>
    /\ sources' = <<>>
    /\ UNCHANGED <<bm25vars, callvars, normvars, splitvars, lexvars, concvars, rrvars, docvars>>

NextChat ==
    \/ \E settings_use_rerank, load_fails \in BOOLEAN :
          RerankService_new(settings_use_rerank, load_fails)
    \/ \E query \in Queries, top_k \in 1..MaxChatTopK, use_rerank \in BOOLEAN :
          chat(query, top_k, use_rerank)
    \/ \E tokenizer_fails \in BOOLEAN : chat_search_returns(tokenizer_fails)
    \/ chat_search_raises
    \/ chat_ranks
    \/ \E llm_fails \in BOOLEAN : chat_generates(llm_fails)
    \/ chat_finished

SpecChat == InitChat /\ [][NextChat]_vars

(***************************************************************************)
(* DocumentService: uploads and deletions in flight together.  A request   *)
(* is suspended only in its await of the vector store.                     *)
(***************************************************************************)
MaxUploads == 2

\* the requests that can be in flight together: two uploads, one deletion
Uploaders == {1, 2}
Deleters == {1}

\* str(uuid.uuid4()) for the n-th document: a fresh value of fixed form
Uuid(n) == "id" \o ToString(n)

DocCollections == {"kbA", "kbB"}

\* the collection the uploads name; a deletion may name either
UploadCollections == {"kbA"}

\* the text the parser extracts from an uploaded file
DocTexts == { <<"a", "\n", "\n", "a">> }

\* metadata given with an upload: none, or a dict that uses the names of the
\* service's own keys, with the chunk_id of the first document's first chunk
DocMetadata ==
    { EmptyDict,
      [chunk_id |-> "id1_0", doc_id |-> "id1", chunk_index |-> 0, filename |-> "g",
       tag |-> "t"] }

\* DocumentService.splitter: RecursiveCharacterTextSplitter() over the settings
DocSplitter ==
    splitter__init__([chunk_size |-> 2, chunk_overlap |-> 1], NoArg, NoArg, None, FALSE)

IdleUpload == [pc |-> "idle", doc_id |-> "", collection_name |-> "", chunks |-> <<>>,
               metadatas |-> <<>>, error |-> ""]
IdleDelete == [pc |-> "idle", doc_id |-> "", collection_name |-> "", store_calls |-> 0,
               error |-> ""]

InitDocs ==
    /\ RetrievalInit /\ NormOff /\ SplitOff /\ LexOff /\ ConcOff /\ RerankOff /\ ChatOff
    /\ doc_pc = "on"
    /\ doc_registry = EmptyDict
    /\ points = [c \in DocCollections |-> {}]
    /\ uuids_used = 0
    /\ uploads = [u \in Uploaders |-> IdleUpload]
    /\ deletes = [d \in Deleters |-> IdleDelete]

\* upload_document up to its await of vector_store.add_documents; fails
\* says where an exception is raised: "parse", "chunking" or "no".  A new
\* request takes the lowest free slot.
upload_document(u, collection_name, meta, file_text, fails) ==
    /\ doc_pc = "on"
    /\ uploads[u].pc = "idle"
    /\ \A v \in Uploaders : v < u => uploads[v].pc # "idle"
    /\ uuids_used < MaxUploads
    /\ uuids_used' = uuids_used + 1
    /\ LET doc_id == Uuid(uuids_used + 1)
           doc_info == doc_info_of(doc_id, "f", meta)
           chunks == create_chunks(DocSplitter, Tagged(file_text), doc_id, "f",
                                   metadata_or_empty(meta))
           metadatas == [i \in DOMAIN chunks |-> payload_of(chunks[i], doc_id)]
       IN  IF fails = "parse"
           THEN /\ doc_registry' = doc_registry
                /\ uploads' = [uploads EXCEPT ![u] =
                                  [IdleUpload EXCEPT !.pc = "raised", !.doc_id = doc_id,
                                                     !.error = "parse"]]
           ELSE IF fails = "chunking"
           THEN /\ doc_registry' = DictSet(doc_registry, doc_id,
                                           [doc_info EXCEPT !.status = "failed"])
                /\ uploads' = [uploads EXCEPT ![u] =
                                  [IdleUpload EXCEPT !.pc = "raised", !.doc_id = doc_id,
                                                     !.error = "chunking"]]
           ELSE /\ doc_registry' = DictSet(doc_registry, doc_id, doc_info)
                /\ uploads' = [uploads EXCEPT ![u] =
                                  [pc |-> "storing", doc_id |-> doc_id,
                                   collection_name |-> collection_name,
                                   chunks |-> chunks, metadatas |-> metadatas,
                                   error |-> ""]]
    /\ UNCHANGED <<doc_pc, points, deletes, bm25vars, callvars, normvars, splitvars,
                   lexvars, concvars, rrvars, chatvars>>

\* the points add_documents makes of the first n chunks, each under a fresh
\* point id
points_of(up, n) ==
    { [id |-> <<up.doc_id, i>>, page_content |-> up.chunks[i].content,
       metadata |-> up.metadatas[i]] : i \in 1..n }

\* add_documents returns: the store holds the chunks, the record is completed
add_documents_returns(u) ==
    /\ doc_pc = "on"
    /\ uploads[u].pc = "storing"
    /\ LET up == uploads[u]
       IN  /\ points' = [points EXCEPT ![up.collection_name] =
                            @ \cup points_of(up, Len(up.chunks))]
           /\ doc_registry' =
                 IF up.doc_id \in DOMAIN doc_registry
                 THEN [doc_registry EXCEPT ![up.doc_id] = completed_info(@, up.chunks)]
                 ELSE doc_registry
           /\ uploads' = [uploads EXCEPT ![u] =
                             [IdleUpload EXCEPT !.pc = "returned", !.doc_id = up.doc_id]]
    /\ UNCHANGED <<doc_pc, uuids_used, deletes, bm25vars, callvars, normvars, splitvars,
                   lexvars, concvars, rrvars, chatvars>>

\* add_documents raises, the store having taken only the first n chunks:
\* the record, if still there, becomes failed and the exception is re-raised
add_documents_raises(u, n) ==
    /\ doc_pc = "on"
    /\ uploads[u].pc = "storing"
    /\ n < Len(uploads[u].chunks)
    /\ LET up == uploads[u]
       IN  /\ points' = [points EXCEPT ![up.collection_name] = @ \cup points_of(up, n)]
           /\ doc_registry' =
                 IF up.doc_id \in DOMAIN doc_registry
                 THEN [doc_registry EXCEPT ![up.doc_id].status = "failed"]
                 ELSE doc_registry
           /\ uploads' = [uploads EXCEPT ![u] =
                             [IdleUpload EXCEPT !.pc = "raised", !.doc_id = up.doc_id,
                                                !.error = "store"]]
    /\ UNCHANGED <<doc_pc, uuids_used, deletes, bm25vars, callvars, normvars, splitvars,
                   lexvars, concvars, rrvars, chatvars>>

\* the route has answered the upload
upload_finished(u) ==
    /\ doc_pc = "on"
    /\ uploads[u].pc \in {"returned", "raised"}
    /\ uploads' = [uploads EXCEPT ![u] = IdleUpload]
    /\ UNCHANGED <<doc_pc, doc_registry, points, uuids_used, deletes, bm25vars, callvars,
                   normvars, splitvars, lexvars, concvars, rrvars, chatvars>>

\* delete_document up to its await of vector_store.delete_by_doc_id; an
\* unknown doc_id raises ValueError before it
delete_document(d, doc_id, collection_name) ==
    /\ doc_pc = "on"
    /\ deletes[d].pc = "idle"
    /\ deletes' = [deletes EXCEPT ![d] =
                      IF ~is_registered(doc_registry, doc_id)
                      THEN [pc |-> "raised", doc_id |-> doc_id,
                            collection_name |-> collection_name, store_calls |-> 0,
                            error |-> "ValueError"]
                      ELSE [pc |-> "deleting", doc_id |-> doc_id,
                            collection_name |-> collection_name, store_calls |-> 1,
                            error |-> ""]]
    /\ UNCHANGED <<doc_pc, doc_registry, points, uuids_used, uploads, bm25vars, callvars,
                   normvars, splitvars, lexvars, concvars, rrvars, chatvars>>

\* delete_by_doc_id returns: the points are gone, then "del
\* self.documents[doc_id]", a KeyError if the record is no longer there
delete_by_doc_id_returns(d) ==
    /\ doc_pc = "on"
    /\ deletes[d].pc = "deleting"
    /\ LET dl == deletes[d]
       IN  /\ points' = [points EXCEPT ![dl.collection_name] = without_doc(@, dl.doc_id)]
           /\ IF dl.doc_id \in DOMAIN doc_registry
              THEN /\ doc_registry' = DictDel(doc_registry, dl.doc_id)
                   /\ deletes' = [deletes EXCEPT ![d].pc = "returned"]
              ELSE /\ doc_registry' = doc_registry
                   /\ deletes' = [deletes EXCEPT ![d].pc = "raised", ![d].error = "KeyError"]
    /\ UNCHANGED <<doc_pc, uuids_used, uploads, bm25vars, callvars, normvars, splitvars,
                   lexvars, concvars, rrvars, chatvars>>

\* delete_by_doc_id raises: the exception is re-raised
delete_by_doc_id_raises(d) ==
    /\ doc_pc = "on"
    /\ deletes[d].pc = "deleting"
    /\ deletes' = [deletes EXCEPT ![d].pc = "raised", ![d].error = "store"]
    /\ UNCHANGED <<doc_pc, doc_registry, points, uuids_used, uploads, bm25vars, callvars,
                   normvars, splitvars, lexvars, concvars, rrvars, chatvars>>

\* the route has answered the deletion
delete_finished(d) ==
    /\ doc_pc = "on"
    /\ deletes[d].pc \in {"returned", "raised"}
    /\ deletes' = [deletes EXCEPT ![d] = IdleDelete]
    /\ UNCHANGED <<doc_pc, doc_registry, points, uuids_used, uploads, bm25vars, callvars,
                   normvars, splitvars, lexvars, concvars, rrvars, chatvars>>

NextDocs ==
    \/ \E u \in Uploaders, c \in UploadCollections, meta \in DocMetadata,
          file_text \in DocTexts, fails \in {"no", "parse", "chunking"} :
          upload_document(u, c, meta, file_text, fails)
    \/ \E u \in Uploaders : add_documents_returns(u)
    \/ \E u \in Uploaders, n \in 0..1 : add_documents_raises(u, n)
    \/ \E u \in Uploaders : upload_finished(u)
    \/ \E d \in Deleters, n \in 1..MaxUploads, c \in DocCollections :
          delete_document(d, Uuid(n), c)
    \/ \E d \in Deleters : delete_by_doc_id_returns(d)
    \/ \E d \in Deleters : delete_by_doc_id_raises(d)
    \/ \E d \in Deleters : delete_finished(d)

SpecDocs == InitDocs /\ [][NextDocs]_vars

(***************************************************************************)
(* Properties of the hybrid search                                         *)
(***************************************************************************)
\* min-max scaling of x within the set S of scores, stated from the design:
\* (x - min) / (max - min), and 1 when S has a single value
MinMax(x, S) ==
    LET lo == CHOOSE m \in S : \A y \in S : RLeq(m, y)
        hi == CHOOSE m \in S : \A y \in S : RLeq(y, m)
    IN  IF lo = hi THEN ROne ELSE RDiv(RSub(x, lo), RSub(hi, lo))

Returned == pc = "done" /\ outcome = "returned"
Fused == Returned /\ req.use_hybrid /\ ~build_raised

\* the position in the vector-store answer of a returned candidate
PosInVector(r) ==
    CHOOSE i \in DOMAIN vector_results : vector_results[i].metadata = r.metadata

\* the raw lexical score of every candidate of this call, from an index
\* over exactly its candidate set
LexRaw ==
    get_scores(BM25Okapi([i \in DOMAIN vector_results |->
                             _tokenize(vector_results[i].content)]),
               _tokenize(req.query))

NormVector(i) ==
    MinMax(vector_results[i].score, {vector_results[j].score : j \in DOMAIN vector_results})

\* normLexical as the design states it: over the candidates with raw score > 0
NormLexical(i) ==
    IF LexRaw[i] > 0
    THEN MinMax(R(LexRaw[i], 100),
                {R(LexRaw[j], 100) : j \in {k \in DOMAIN vector_results : LexRaw[k] > 0}})
    ELSE RZero

\* normLexical as the code computes it: candidates without a chunk_id are
\* left out of the lexical result set
HasLexical(i) == LexRaw[i] > 0 /\ vector_results[i].chunk_id # ""

NormLexicalWithId(i) ==
    IF HasLexical(i)
    THEN MinMax(R(LexRaw[i], 100),
                {R(LexRaw[j], 100) : j \in {k \in DOMAIN vector_results : HasLexical(k)}})
    ELSE RZero

FusedScore(nv, nl) == RAdd(RMul(R(AlphaNum, AlphaDen), nv),
                           RMul(RSub(ROne, R(AlphaNum, AlphaDen)), nl))

\* C1 as stated: after a hybrid search whose index build succeeded, every
\* returned candidate's score is alpha*normVector + (1-alpha)*normLexical,
\* normLexical taken over all candidates with a positive raw lexical score.
C1_FusedScoreAsStated ==
    Fused => \A k \in DOMAIN results :
                results[k].score = FusedScore(NormVector(PosInVector(results[k])),
                                              NormLexical(PosInVector(results[k])))

\* C1 amended: the same, with normLexical taken over the candidates with a
\* positive raw lexical score and a non-empty chunk_id, and normLexical = 0
\* for every candidate whose chunk_id is missing.
C1_FusedScore ==
    Fused => \A k \in DOMAIN results :
                /\ results[k].vector_score = NormVector(PosInVector(results[k]))
                /\ results[k].bm25_score = NormLexicalWithId(PosInVector(results[k]))
                /\ results[k].score = FusedScore(NormVector(PosInVector(results[k])),
                                                 NormLexicalWithId(PosInVector(results[k])))

\* a fused answer with a candidate scored by its lexical match alone and a
\* candidate without chunk_id that matched the query lexically
C1_Witness ==
    /\ Fused
    /\ \E k1, k2 \in DOMAIN results :
          /\ results[k1].bm25_score = ROne
          /\ results[k1].vector_score = RZero
          /\ results[k2].chunk_id = ""
          /\ LexRaw[PosInVector(results[k2])] > 0

\* C2: in hybrid mode the returned list is in descending order of score, and
\* candidates with equal score keep their relative order of the vector-store
\* answer.
C2_DescendingStable ==
    (Returned /\ req.use_hybrid) =>
        \A i, j \in DOMAIN results :
            i < j => /\ RLeq(results[j].score, results[i].score)
                     /\ results[i].score = results[j].score
                           => PosInVector(results[i]) < PosInVector(results[j])

\* C3: hybrid_search never returns more than top_k candidates, in either
\* mode and on the path where build_index raised.
C3_AtMostTopK == Returned => Len(results) <= req.top_k

\* the index build raised on an answer longer than top_k, cut to top_k
C3_Witness ==
    /\ Returned
    /\ build_raised
    /\ Len(vector_results) > req.top_k
    /\ Len(results) = req.top_k

\* C4: in hybrid mode with a threshold, no returned candidate scores below
\* the threshold, on every path.
C4_NoneBelowThreshold ==
    (Returned /\ req.use_hybrid /\ req.score_threshold # None) =>
        \A k \in DOMAIN results : RLeq(req.score_threshold, results[k].score)

\* C5: when build_index raised, the call returns the candidates in vector
\* order, each with vector_score = its normalised vector score (in [0,1])
\* and lexical score 0.
C5_FallbackNormalised ==
    (pc = "done" /\ build_raised) =>
        /\ outcome = "returned"
        /\ \A k \in DOMAIN results :
              /\ results[k].metadata = vector_results[k].metadata
              /\ "vector_score" \in DOMAIN results[k]
              /\ results[k].vector_score = NormVector(k)
              /\ "bm25_score" \in DOMAIN results[k]
              /\ results[k].bm25_score = RZero

\* C6: with use_hybrid = false the call returns the store's answer for
\* top_k and the threshold, in the store's order, every candidate with
\* vector_score = score and lexical score 0.
C6_VectorOnly ==
    (Returned /\ ~req.use_hybrid) =>
        /\ Len(results) = Len(vector_results)
        /\ vector_results \in VectorStore_search(req.collection_name, req.top_k,
                                                 req.score_threshold)
        /\ \A k \in DOMAIN results :
              /\ results[k].metadata = vector_results[k].metadata
              /\ results[k].score = vector_results[k].score
              /\ "vector_score" \in DOMAIN results[k]
              /\ results[k].vector_score = results[k].score
              /\ "bm25_score" \in DOMAIN results[k]
              /\ results[k].bm25_score = RZero

(***************************************************************************)
(* Properties of the normalisers                                           *)
(***************************************************************************)
NormalizedAsDesigned(out) ==
    /\ Len(out) = Len(norm_in)
    /\ \A i \in DOMAIN norm_in :
          /\ RLeq(RZero, out[i]) /\ RLeq(out[i], ROne)
          /\ out[i] = MinMax(norm_in[i], Range(norm_in))

\* C7: both normalisers return a list of the length and order of the input,
\* every element in [0,1] and equal to (s - min)/(max - min), 1 at every
\* position when all scores are equal, the empty list for the empty list;
\* and the two return the same list.
C7_Normalize ==
    norm_pc = "done" =>
        /\ NormalizedAsDesigned(norm_bm25)
        /\ NormalizedAsDesigned(norm_retrieval)
        /\ norm_bm25 = norm_retrieval

\* three different scores, the middle one scaled strictly inside (0, 1)
C7_Witness ==
    /\ norm_pc = "done"
    /\ Len(norm_in) = 3
    /\ \E i \in DOMAIN norm_retrieval :
          RLess(RZero, norm_retrieval[i]) /\ RLess(norm_retrieval[i], ROne)

(***************************************************************************)
(* Properties of the splitter                                              *)
(***************************************************************************)
\* a non-empty separator divides s when it occurs in s before the end of s
Divides(separator, s) ==
    separator # <<>> /\ \E i \in 1..(Len(s) - Len(separator)) : IsAt(s, i, separator)

Indivisible(s) ==
    \A k \in DOMAIN splitter.separators : ~Divides(splitter.separators[k], s)

\* C8: every chunk split_text returns has at most chunk_size tokens, unless
\* no separator of the list can divide it.
C8_ChunkWithinSize ==
    split_pc = "done" =>
        \A k \in DOMAIN text_chunks :
            \/ _count_tokens(splitter, text_chunks[k]) <= splitter.chunk_size
            \/ Indivisible(text_chunks[k])

\* C9: every character of the text is in some chunk of the ungapped list.
C9_Coverage ==
    split_pc = "done" =>
        \A p \in 1..Len(text) :
            \E k \in DOMAIN ungapped : \E i \in DOMAIN ungapped[k] : ungapped[k][i].pos = p

\* a text cut at both separators of the list, one chunk of it from the
\* inside of the text
C9_Witness ==
    /\ split_pc = "done"
    /\ Len(ungapped) >= 3
    /\ \E k \in DOMAIN ungapped :
          /\ ungapped[k] # <<>>
          /\ ungapped[k][1].pos > 1
          /\ ungapped[k][Len(ungapped[k])].pos < Len(text)
    /\ \E k \in DOMAIN ungapped, i \in DOMAIN text :
          /\ text[i] = " "
          /\ ungapped[k] # <<>>
          /\ ungapped[k][Len(ungapped[k])].pos = i
          /\ i < Len(text)

\* C10: the empty text gives no chunk and no chunk record.
C10_EmptyTextNoChunk ==
    (split_pc = "done" /\ text = <<>>) => (text_chunks = <<>> /\ chunk_records = <<>>)

\* C11: a text of at most chunk_size tokens comes back as exactly one chunk,
\* the text itself, whatever overlap and separators are configured.
C11_ShortTextOneChunk ==
    (split_pc = "done" /\ _count_tokens(splitter, Tagged(text)) <= splitter.chunk_size) =>
        text_chunks = <<Tagged(text)>>

\* a short text that holds separators, split with an overlap configured
C11_Witness ==
    /\ split_pc = "done"
    /\ Len(text) >= 2
    /\ _count_tokens(splitter, Tagged(text)) <= splitter.chunk_size
    /\ splitter.chunk_overlap > 0
    /\ \E i \in DOMAIN text : text[i] = " "
    /\ Len(text_chunks) = 1

\* C12: the split returns, and every recursive invocation of _split_text
\* works on a separator list strictly shorter than its caller's, so the
\* recursion is no deeper than the separator list is long.
C12_Terminates ==
    split_pc = "done" =>
        \A c \in split_calls(splitter, Tagged(text), splitter.separators) :
            /\ Len(c.callee) < Len(c.caller)
            /\ Len(c.caller) <= Len(splitter.separators)

\* a split that recursed twice and ran out of separators on a list without
\* the empty-string fallback
C12_Witness ==
    /\ split_pc = "done"
    /\ splitter.separators = CustomSeparators
    /\ \E c1, c2 \in split_calls(splitter, Tagged(text), splitter.separators) :
          /\ Len(c1.callee) = 1
          /\ c2.callee = <<>>
          /\ c2.caller = c1.callee

(***************************************************************************)
(* Properties of BM25Service                                               *)
(***************************************************************************)
\* C13: search returns only positions with raw score > 0, each with that
\* raw score, in descending order of score, at most top_k of them, every
\* position an index into the collection's documents; and the empty list
\* for a collection without index.
C13_LexicalSearch ==
    (lex_pc = "on" /\ lex_op.op = "search") =>
        IF lex_op.collection_name \notin DOMAIN indexes THEN lex_out = <<>>
        ELSE LET c == lex_op.collection_name
                 raw == get_scores(indexes[c], _tokenize(lex_op.query))
             IN  /\ Len(lex_out) <= lex_op.top_k
                 /\ \A k \in DOMAIN lex_out :
                       /\ lex_out[k].index \in 0..(Len(documents[c]) - 1)
                       /\ raw[lex_out[k].index + 1] > 0
                       /\ lex_out[k].score = R(raw[lex_out[k].index + 1], 100)
                 /\ \A i, j \in DOMAIN lex_out :
                       i < j => /\ RLeq(lex_out[j].score, lex_out[i].score)
                                /\ lex_out[i].index # lex_out[j].index

\* three documents match, two are returned, the better one from the later
\* position first
C13_Witness ==
    /\ lex_pc = "on"
    /\ lex_op.op = "search"
    /\ lex_op.collection_name \in DOMAIN indexes
    /\ Cardinality({i \in DOMAIN documents[lex_op.collection_name] :
                      get_scores(indexes[lex_op.collection_name],
                                 _tokenize(lex_op.query))[i] > 0}) = 3
    /\ Len(lex_out) = 2
    /\ lex_out[1].index > lex_out[2].index
    /\ RLess(lex_out[2].score, lex_out[1].score)

\* C14: after any sequence of builds, every collection with an index has
\* documents, metadata and the model's corpus of one length, position by
\* position about the same text; no collection has one structure without
\* the others.
C14_IndexConsistent ==
    lex_pc = "on" =>
        /\ DOMAIN documents = DOMAIN indexes
        /\ DOMAIN metadata = DOMAIN indexes
        /\ \A c \in DOMAIN indexes :
              /\ Len(documents[c]) = Len(metadata[c])
              /\ Len(documents[c]) = Len(indexes[c].corpus)
              /\ \A i \in DOMAIN documents[c] :
                    /\ metadata[c][i].content = documents[c][i]
                    /\ indexes[c].corpus[i] = _tokenize(documents[c][i])

\* a build raised on a collection that keeps the index of an earlier build
\* of another length, the other collection indexed as well
C14_Witness ==
    /\ lex_pc = "on"
    /\ lex_op.op = "build"
    /\ lex_op.raised
    /\ DOMAIN indexes = Collections
    /\ Len(documents[lex_op.collection_name]) = 3

(***************************************************************************)
(* Properties of the lexical index cache                                   *)
(***************************************************************************)
EmptyCache == [indexes |-> EmptyDict, documents |-> EmptyDict, metadata |-> EmptyDict]

\* the locals of a hybrid search that starts from an empty cache, so that
\* every lexical score comes from an index over its own candidates
OwnOutcome(rq, answer, raised) == hybrid_outcome(EmptyCache, rq, answer, raised)

\* C15: whatever the interleaving, a request that fused lexical scores
\* fused the scores of an index built over its own candidates: its
\* lexical results and its fused list are those of a search that ran on
\* an empty cache; with no candidate nothing is fused.
C15_OwnIndex ==
    conc_pc = "on" =>
        \A r \in Requests :
            (calls[r].pc = "done" /\ calls[r].outcome = "returned"
               /\ ~calls[r].build_raised) =>
                IF calls[r].vector_results = <<>>
                THEN calls[r].combined_results = <<>> /\ calls[r].results = <<>>
                ELSE /\ calls[r].bm25_results =
                          OwnOutcome(calls[r].req, calls[r].vector_results,
                                     FALSE).bm25_results
                     /\ calls[r].combined_results =
                          OwnOutcome(calls[r].req, calls[r].vector_results,
                                     FALSE).combined_results

\* two requests on one collection done together with different candidate
\* sets, each with a lexical score fused; the second ran while the first
\* had not been collected
C15_Witness ==
    /\ conc_pc = "on"
    /\ \A r \in Requests : /\ calls[r].pc = "done"
                            /\ calls[r].outcome = "returned"
                            /\ ~calls[r].build_raised
    /\ calls[1].req.collection_name = calls[2].req.collection_name
    /\ calls[1].vector_results # calls[2].vector_results
    /\ \A r \in Requests : \E k \in DOMAIN calls[r].results :
          RLess(RZero, calls[r].results[k].bm25_score)

\* C16: the list a call returns is the list the same call returns on a
\* service whose cache is empty, given the same answer of the store and the
\* same outcome of the index build; so two runs with the same inputs and
\* collaborator responses return the same list, whatever ran in between.
C16_SameOutputWhateverTheCache ==
    Returned =>
        results = IF req.use_hybrid
                  THEN OwnOutcome(req, vector_results, build_raised).results
                  ELSE vector_results

\* a call whose store answer is empty, made while the cache still held the
\* index an earlier call built for the collection: the lexical search ran on
\* that index and found hits, and the call still returned the empty list
C16_Witness ==
    /\ Returned
    /\ req.use_hybrid
    /\ vector_results = <<>>
    /\ req.collection_name \in DOMAIN indexes
    /\ bm25_results # <<>>
    /\ results = <<>>

\* the text contains the phrase as a contiguous run of characters
Contains(content, phrase) ==
    \E k \in 0..(Len(content) - Len(phrase)) :
        SubSeq(content, k + 1, k + Len(phrase)) = phrase

\* the store answered two chunks, of which only the i-th contains the query
OnlyChunkWithPhrase(i) ==
    /\ Len(vector_results) = 2
    /\ Contains(vector_results[i].content, req.query)
    /\ ~Contains(vector_results[3 - i].content, req.query)

\* C17: with two candidates of which only one contains the query's phrase,
\* the fused ranking (alpha = 0.7) puts that candidate first, whatever the
\* two vector scores are.
C17_PhraseChunkFirst ==
    \A i \in 1..2 :
        (Fused /\ OnlyChunkWithPhrase(i)) =>
            /\ results # <<>>
            /\ results[1].metadata = vector_results[i].metadata

(***************************************************************************)
(* Properties of the reranker                                              *)
(***************************************************************************)
\* a rerank call has returned
Reranked == rr_pc = "returned"

Min2(a, b) == IF a < b THEN a ELSE b

\* C18: a rerank call with topK >= 0 returns at most min(topK, number of
\* candidates) items, whether the model is invoked, the reranker is
\* disabled, the candidate list is empty or the invocation fails.
C18_AtMostTopK ==
    (Reranked /\ rr_call.top_k # NoArg) =>
        Len(rr_out) <= Min2(rr_call.top_k, Len(rr_call.documents))

\* the model was invoked in the last call and returned its scores
ModelScored == Reranked /\ rr_call.predict.outcome = "returns"

\* the model's score for the pair (query, content of the candidate)
ScoreOf(doc) == rr_call.predict.score[<<rr_call.query, doc.content>>]

\* the output is the candidates with their scores attached, best first, cut
\* to k: every item is an input candidate carrying the model's score for it,
\* no candidate is returned twice, scores descend, and no candidate left
\* out scores higher than one returned
RerankedAndCutTo(k) ==
    /\ Len(rr_out) = Min2(k, Len(rr_call.documents))
    /\ \A n \in DOMAIN rr_out :
          \E idx \in DOMAIN rr_call.documents :
              rr_out[n] = with_rerank_score(rr_call.documents[idx],
                                            ScoreOf(rr_call.documents[idx]))
    /\ \A m, n \in DOMAIN rr_out : m # n => rr_out[m] # rr_out[n]
    /\ \A n \in 1..(Len(rr_out) - 1) : rr_out[n].rerank_score >= rr_out[n + 1].rerank_score
    /\ \A idx \in DOMAIN rr_call.documents, n \in DOMAIN rr_out :
          (\A m \in DOMAIN rr_out : rr_out[m].chunk_id # rr_call.documents[idx].chunk_id)
              => ScoreOf(rr_call.documents[idx]) <= rr_out[n].rerank_score

\* C19: when the model is available and its invocation succeeds, rerank
\* returns the candidates with rerank_score = the model's score for (query,
\* content), sorted descending by rerank_score and truncated to topK (the
\* configured rerank_top_k when no topK is passed); every returned item is
\* one of the input candidates.
C19_RerankedSortedTruncated ==
    ModelScored =>
        RerankedAndCutTo(IF rr_call.top_k = NoArg THEN rerank_top_k ELSE rr_call.top_k)

\* the same for the calls that pass no topK or a topK >= 1
RerankedForPositiveTopK ==
    (ModelScored /\ rr_call.top_k # 0) =>
        RerankedAndCutTo(IF rr_call.top_k = NoArg THEN rerank_top_k ELSE rr_call.top_k)

\* candidates[:topK]; candidates[:None] is the whole list
Slice(s, top_k) == IF top_k = NoArg THEN s ELSE Prefix(s, top_k)

\* once CrossEncoder(...) raised at construction the reranker is off, holds
\* no model, and the load was attempted exactly once
DisabledForGood ==
    (rr_pc \in {"ready", "returned"} /\ load_failed) =>
        /\ ~rerank_service.use_rerank
        /\ rerank_service.model = NoModel
        /\ load_attempts = 1

\* C20: if the model failed to load at startup, the reranker stays disabled
\* (never re-enabled, the load never retried), and every rerank call returns
\* candidates[:topK] in unchanged order.
C20_DisabledPassThrough ==
    /\ DisabledForGood
    /\ (Reranked /\ load_failed) => rr_out = Slice(rr_call.documents, rr_call.top_k)

\* the same for the calls that pass no topK or a topK >= 1
PassThroughForPositiveTopK ==
    /\ DisabledForGood
    /\ (Reranked /\ load_failed /\ rr_call.top_k # 0) =>
          rr_out = Slice(rr_call.documents, rr_call.top_k)

\* the topK a call works with when the model is invoked: the configured
\* rerank_top_k when none is passed
TopKAsked == IF rr_call.top_k = NoArg THEN rerank_top_k ELSE rr_call.top_k

\* a failed invocation leaves the reranker as it was: enabled, model loaded
StaysEnabled ==
    predict_failed => rerank_service.use_rerank /\ rerank_service.model # NoModel

\* C21: a call whose model invocation fails returns the first topK
\* candidates in their order; the reranker stays enabled, and a later call
\* whose invocation succeeds is reranked as usual.
C21_FailureIsLocal ==
    /\ (Reranked /\ rr_call.predict.outcome = "raises") =>
          rr_out = Prefix(rr_call.documents, TopKAsked)
    /\ StaysEnabled
    /\ (ModelScored /\ predict_failed) => RerankedAndCutTo(TopKAsked)

\* the same for the calls that pass no topK or a topK >= 1
FailureIsLocalForPositiveTopK ==
    /\ (Reranked /\ rr_call.predict.outcome = "raises" /\ rr_call.top_k # 0) =>
          rr_out = Prefix(rr_call.documents, TopKAsked)
    /\ StaysEnabled
    /\ (ModelScored /\ predict_failed /\ rr_call.top_k # 0) => RerankedAndCutTo(TopKAsked)

\* a call reranked after an earlier call's invocation had failed
RerankedAfterFailure == ModelScored /\ predict_failed /\ Len(rr_out) > 1

(***************************************************************************)
(* Properties of the hybrid search, continued                              *)
(***************************************************************************)
\* C23: a hybrid call asks the vector store exactly once, for 2 * top_k
\* candidates and without a score threshold; when the index build did not
\* raise, the lexical search runs with top_k = 2 * top_k, and the threshold
\* is applied to the fused scores only: the result is the fused list without
\* the entries whose fused score is below the threshold, cut to top_k.
C23_OverFetchThenFilter ==
    (Returned /\ req.use_hybrid) =>
        /\ store_requests = <<[top_k |-> 2 * req.top_k, score_threshold |-> None]>>
        /\ ~build_raised =>
              /\ lexical_top_k = 2 * req.top_k
              /\ results =
                    Prefix(IF req.score_threshold = None THEN combined_results
                           ELSE SelectSeq(combined_results,
                                          LAMBDA r : RLeq(req.score_threshold, r.score)),
                           req.top_k)

\* a fused call with a threshold whose store answer held more candidates
\* than top_k, one of them with a raw score below the threshold, and whose
\* result kept a candidate and dropped one by its fused score
C23_Witness ==
    /\ Fused
    /\ req.score_threshold # None
    /\ Len(vector_results) > req.top_k
    /\ \E i \in DOMAIN vector_results :
          RLess(vector_results[i].score, req.score_threshold)
    /\ \E i \in DOMAIN combined_results :
          RLess(combined_results[i].score, req.score_threshold)
    /\ results # <<>>

(***************************************************************************)
(* Properties of the splitter, continued                                   *)
(***************************************************************************)
\* the tokens of a chunk as the splitter counts them: tiktoken's, or one per
\* character when the encoding could not be loaded
TokensOf(s) == IF splitter.encoding THEN encode(s) ELSE [i \in DOMAIN s |-> <<s[i]>>]

\* the last n tokens of a chunk as text; the whole chunk when it has at most
\* n tokens
TrailingTokens(s, n) ==
    LET tokens == TokensOf(s)
        m == IF Len(tokens) <= n THEN Len(tokens) ELSE n
    IN  Concat(SubSeq(tokens, Len(tokens) - m + 1, Len(tokens)))

SplitDone == split_pc = "done"
NeedsMoreThanOneChunk == _count_tokens(splitter, Tagged(text)) > splitter.chunk_size

\* C24: when the text does not fit one chunk and the overlap is > 0, the
\* first chunk is the first ungapped chunk and chunk i is the trailing
\* overlap tokens of ungapped chunk i-1 followed by ungapped chunk i.
C24_Overlap ==
    (SplitDone /\ NeedsMoreThanOneChunk /\ splitter.chunk_overlap > 0) =>
        /\ Len(text_chunks) = Len(ungapped)
        /\ \A i \in DOMAIN text_chunks :
              text_chunks[i] =
                  IF i = 1 THEN ungapped[1]
                  ELSE TrailingTokens(ungapped[i - 1], splitter.chunk_overlap)
                       \o ungapped[i]

\* a text cut into several chunks where some chunk got only the tail of its
\* predecessor, which has more tokens than the overlap
C24_Witness ==
    /\ SplitDone /\ NeedsMoreThanOneChunk /\ splitter.chunk_overlap > 0
    /\ \E i \in 2..Len(ungapped) :
          /\ Len(TokensOf(ungapped[i - 1])) > splitter.chunk_overlap
          /\ text_chunks[i] # ungapped[i]
          /\ text_chunks[i] # ungapped[i - 1] \o ungapped[i]

\* C25: a splitter constructed with chunk_overlap = 0 prepends nothing: its
\* chunks are the ungapped chunks, whatever settings.chunk_overlap is.
C25_ZeroOverlap ==
    (SplitDone /\ ctor_args.chunk_overlap = 0) => text_chunks = ungapped

\* C27: the ungapped chunks put end to end are the text: nothing is lost,
\* nothing appears twice, and the chunks follow the order of the text.
C27_Partition ==
    SplitDone => Concat(ungapped) = Tagged(text)

\* C28: the fused list, before the threshold filter and the cut to top_k,
\* has exactly one entry for each candidate of the vector-store answer and
\* no other entry, also for candidates whose chunk_id defaulted to "".
C28_FusionKeepsCandidates ==
    Fused =>
        /\ Len(combined_results) = Len(vector_results)
        /\ \A i \in DOMAIN vector_results :
              \E k \in DOMAIN combined_results :
                  /\ combined_results[k].metadata = vector_results[i].metadata
                  /\ \A k2 \in DOMAIN combined_results :
                        combined_results[k2].metadata = vector_results[i].metadata => k2 = k

(***************************************************************************)
(* Properties of the chat route                                            *)
(***************************************************************************)
\* the sources are fixed: generation has them or has answered with them
SourcesReady == chat_pc \in {"generate", "answered"}

\* C26: the list handed to answer generation for a chat request with
\* top_k = k has at most k entries, whether the reranker is asked for or
\* not, loaded or disabled, its invocation succeeds or fails, and whether
\* retrieval found candidates or none.
C26_AtMostK ==
    SourcesReady => Len(sources) <= chat_req.top_k

\* a request with rerank whose retrieval gave more than k candidates, cut to
\* k by a loaded reranker that scored them
C26_Witness ==
    /\ SourcesReady
    /\ chat_req.use_rerank
    /\ rerank_service.use_rerank /\ rerank_service.model # NoModel
    /\ Len(search_results) > chat_req.top_k
    /\ Len(sources) = chat_req.top_k
    /\ \A n \in DOMAIN sources : "rerank_score" \in DOMAIN sources[n]

(***************************************************************************)
(* Properties of DocumentService                                           *)
(***************************************************************************)
\* the chunk_ids of the points a collection holds
StoredChunkIds(c) == {p.metadata.chunk_id : p \in points[c]}

\* C22: the chunks of an upload carry the indexes 0..n-1 in order, each
\* chunk_id is made of the upload's doc_id and the chunk's index, and no two
\* points stored in a collection share a chunk_id, over every sequence of
\* uploads and deletions, also when the user's metadata has keys named
\* chunk_id, doc_id, chunk_index or filename.
C22_DistinctChunkIds ==
    /\ \A u \in Uploaders :
          uploads[u].pc = "storing" =>
              \A i \in DOMAIN uploads[u].chunks :
                  /\ uploads[u].chunks[i].chunk_index = i - 1
                  /\ uploads[u].metadatas[i].chunk_index = i - 1
                  /\ uploads[u].metadatas[i].doc_id = uploads[u].doc_id
                  /\ uploads[u].metadatas[i].chunk_id =
                        uploads[u].doc_id \o "_" \o ToString(i - 1)
    /\ \A c \in DocCollections :
          \A p \in points[c], q \in points[c] :
              p.id # q.id => p.metadata.chunk_id # q.metadata.chunk_id

\* a collection holds all chunks of two uploads, one of them made with
\* metadata that names chunk_id, doc_id, chunk_index and filename
C22_Witness ==
    \E c \in DocCollections :
        /\ \E p \in points[c], q \in points[c] :
              /\ p.id[1] # q.id[1]
              /\ "tag" \in DOMAIN p.metadata
              /\ p.metadata.chunk_id # "id1_0"
        /\ Cardinality(points[c]) >= 4
        /\ Cardinality(StoredChunkIds(c)) = Cardinality(points[c])

\* the upload that made the record doc_id steps from one position to another
UploadSteps(doc_id, before, after) ==
    \E u \in Uploaders :
        /\ uploads[u].pc = before
        /\ before = "storing" => uploads[u].doc_id = doc_id
        /\ uploads'[u].pc = after
        /\ uploads'[u].doc_id = doc_id

\* the store holds every chunk of the upload in flight for doc_id
AllChunksStored(doc_id) ==
    \E u \in Uploaders :
        /\ uploads[u].pc = "storing" /\ uploads[u].doc_id = doc_id
        /\ points_of(uploads[u], Len(uploads[u].chunks))
              \subseteq points'[uploads[u].collection_name]
        /\ doc_registry'[doc_id].chunks_count = Len(uploads[u].chunks)

\* C29: a document record goes from 'processing' to 'completed' or from
\* 'processing' to 'failed' and nowhere else.  It is created after the file
\* was parsed, as 'processing', or already 'failed' with the error raised
\* when chunking fails before the request is first suspended; a failing
\* parse creates no record.  It becomes 'completed', with chunks_count the
\* number of chunks, only in the step in which the store has accepted all
\* chunks; it becomes 'failed' only with the upload raising; a completed or
\* failed record never changes again.
C29_RecordLifecycle ==
    [][ /\ \A id \in DOMAIN doc_registry' \ DOMAIN doc_registry :
              \/ /\ doc_registry'[id].status = "processing"
                 /\ doc_registry'[id].chunks_count = 0
                 /\ UploadSteps(id, "idle", "storing")
              \/ /\ doc_registry'[id].status = "failed"
                 /\ UploadSteps(id, "idle", "raised")
        /\ \A id \in DOMAIN doc_registry \cap DOMAIN doc_registry' :
              \/ doc_registry'[id] = doc_registry[id]
              \/ /\ doc_registry[id].status = "processing"
                 /\ doc_registry'[id].status = "completed"
                 /\ UploadSteps(id, "storing", "returned")
                 /\ AllChunksStored(id)
              \/ /\ doc_registry[id].status = "processing"
                 /\ doc_registry'[id].status = "failed"
                 /\ UploadSteps(id, "storing", "raised")
        /\ \A u \in Uploaders :
              (uploads'[u].error = "parse" /\ uploads[u].error # "parse")
                  => doc_registry' = doc_registry
      ]_vars

\* the registry holds a completed record whose two chunks are stored and a
\* failed record whose upload has just raised from the store
C29_Witness ==
    /\ \E id \in DOMAIN doc_registry :
          /\ doc_registry[id].status = "completed"
          /\ doc_registry[id].chunks_count = 2
          /\ Cardinality({p \in points["kbA"] : p.metadata.doc_id = id}) = 2
    /\ \E u \in Uploaders :
          /\ uploads[u].pc = "raised" /\ uploads[u].error = "store"
          /\ uploads[u].doc_id \in DOMAIN doc_registry
          /\ doc_registry[uploads[u].doc_id].status = "failed"

DeleteRefused == \E d \in Deleters : deletes[d].error = "ValueError"

\* the store's deletion raised and the record is still there
DeleteFailedRecordKept ==
    \E d \in Deleters :
        deletes[d].error = "store" /\ deletes[d].doc_id \in DOMAIN doc_registry

====
